---- MODULE Spec2Model ----
(***************************************************************************)
(* A model of the structured logger of pkg/log: the value renderer, the    *)
(* key/value sanitizer, the line assembler (Formatter) and the             *)
(* copy-on-fork basicLogger built on them.                                 *)
(*                                                                         *)
(* Text is modelled byte for byte as TLA+ strings.  Go values of type      *)
(* interface{} are records tagged by "kind".  Go slices are triples        *)
(* (arr, len, cap) over a heap of backing arrays, so that append, the      *)
(* three-index slice expression and in-place element assignment alias      *)
(* exactly as they do in Go.                                               *)
(***************************************************************************)
EXTENDS Integers, Sequences, FiniteSets, TLC

VARIABLES
    loggers,    \* the basicLogger objects allocated so far, by address 1..Len
    heap,       \* backing arrays of the []interface{} slices the loggers hold
    last,       \* the most recent call: its inputs, its result, its sink writes
    threads,    \* the goroutines running concurrently, each at its step
    registry,   \* the package's register of named loggers and its mutex
    writers     \* the io.Writer objects the goroutines write to, by address

vars == <<loggers, heap, last, threads, registry, writers>>

-----------------------------------------------------------------------------
(* Bounds of the model.                                                    *)

\* How many basicLogger objects one behaviour allocates (the root included).
MaxLoggers == 2

\* How many loggers one behaviour derives when it only derives loggers.
MaxDerived == 2

\* The longest key/value list handed to sanitize.
MaxLen == 3

\* How many goroutines derive loggers from one parent at the same time.
MaxThreads == 2

\* How deep the values given to pretty nest, next to the depths around
\* defaultMaxLogDepth.
MaxNest == 3

\* How many fields the structs given to pretty have.
MaxFields == 3

\* A map[string]T without entries; a map is a function on its keys.
EmptyMap == [name \in {} |-> 0]

\* The package-level registry as its initializer leaves it: the RWMutex
\* unlocked (mu is the goroutine holding the write lock, 0 for none), both
\* maps made and empty.
emptyRegistry == [mu |-> 0, levels |-> EmptyMap, loggers |-> EmptyMap]

\* The one element of a singleton set.  In { e(x) : x \in {v} } the value v
\* is computed once, whatever the number of uses e makes of x.
The(S) == CHOOSE x \in S : TRUE

-----------------------------------------------------------------------------
(* Integers of 64 bits.  A uint, and an int read as its two's complement,  *)
(* is the sequence of its four 16-bit limbs, the lowest first.             *)

Limb == 2^16

UintZero == <<0, 0, 0, 0>>

\* The uint of the natural number n < 2^31.
Uint(n) == <<n % Limb, n \div Limb, 0, 0>>

\* 1<<63 and 1<<64 - 1.
UintTop == <<0, 0, 0, Limb \div 2>>
UintMax == <<Limb - 1, Limb - 1, Limb - 1, Limb - 1>>

\* a + b of two uints: the sum modulo 2^64.
AddUint(a, b) ==
    LET s1 == a[1] + b[1]
        s2 == a[2] + b[2] + (s1 \div Limb)
        s3 == a[3] + b[3] + (s2 \div Limb)
        s4 == a[4] + b[4] + (s3 \div Limb)
    IN  <<s1 % Limb, s2 % Limb, s3 % Limb, s4 % Limb>>

\* int(v) of a Level v, an int32: the sign extended to 64 bits.
IntOfLevel(v) ==
    IF v >= 0 THEN <<v % Limb, v \div Limb, 0, 0>>
    ELSE LET m == v + 2^30 + 2^30
         IN  <<m % Limb, (m \div Limb) + (Limb \div 2), Limb - 1, Limb - 1>>

\* int(u) of a uint u: the same 64 bits.
IntOfUint(u) == u

\* x >= y of two ints.
GeInt(x, y) ==
    LET negx == x[4] >= Limb \div 2
        negy == y[4] >= Limb \div 2
    IN  IF negx # negy THEN negy
        ELSE \/ x = y
             \/ \E i \in 1..4 : /\ x[i] > y[i]
                                /\ \A j \in (i + 1)..4 : x[j] = y[j]

\* u / 10 and u % 10 of a uint u.
DivTen(u) ==
    LET c4 == u[4]
        c3 == (c4 % 10) * Limb + u[3]
        c2 == (c3 % 10) * Limb + u[2]
        c1 == (c2 % 10) * Limb + u[1]
    IN  [q |-> <<c1 \div 10, c2 \div 10, c3 \div 10, c4 \div 10>>,
         r |-> c1 % 10]

\* strconv.FormatUint(u, 10).
RECURSIVE UintDigits(_)
UintDigits(u) ==
    IF u = UintZero THEN ""
    ELSE The({ UintDigits(d.q) \o ToString(d.r) : d \in {DivTen(u)} })

FormatUint(u) == IF u = UintZero THEN "0" ELSE UintDigits(u)

-----------------------------------------------------------------------------
(* Go values.                                                              *)

VNil == [kind |-> "nil"]
VBool(b) == [kind |-> "bool", b |-> b]
VStr(s) == [kind |-> "string", s |-> s]
VInt(n) == [kind |-> "int", n |-> n]
\* A uint, u its limbs.
VUint(u) == [kind |-> "uint", u |-> u]
VSlice(es) == [kind |-> "slice", elems |-> es]
VPseudo(kv) == [kind |-> "pseudo", kv |-> kv]
VStruct(fs) == [kind |-> "struct", fields |-> fs]

\* One reflect.StructField together with the field's value.
Fld(name, val) ==
    [name |-> name, pkgPath |-> "", hasTag |-> FALSE, tag |-> "",
     anonymous |-> FALSE, val |-> val]
FldTag(name, tag, val) ==
    [name |-> name, pkgPath |-> "", hasTag |-> TRUE, tag |-> tag,
     anonymous |-> FALSE, val |-> val]

IsString(v) == v.kind = "string"

\* A method of a value: absent, returning the value ret, or panicking with
\* the payload text.
NoMethod == [has |-> FALSE, panics |-> FALSE, ret |-> VNil, payload |-> ""]
Returns(x) == [has |-> TRUE, panics |-> FALSE, ret |-> x, payload |-> ""]
Panics(p) == [has |-> TRUE, panics |-> TRUE, ret |-> VNil, payload |-> p]

\* A value of a named type with methods: marshal is its MarshalLog, string
\* its String, error its Error, under the value reflection sees.
VObj(name, marshal, string, error, under) ==
    [kind |-> "obj", name |-> name, marshal |-> marshal, string |-> string,
     error |-> error, under |-> under]

\* errors.New(text).
NewError(text) ==
    VObj(text, NoMethod, NoMethod, Returns(VStr(text)), VStruct(<<>>))

\* A map: keyKind the kind of its key type, entries its <<key, value>>
\* pairs in the order MapRange yields them.
VMap(keyKind, entries) ==
    [kind |-> "map", keyKind |-> keyKind, entries |-> entries]

\* A pointer to the variable to (0: a nil pointer), and the value of the
\* variable to where a slice or a map holds itself.
VPtr(to) == [kind |-> "ptr", to |-> to]
VRef(to) == [kind |-> "ref", to |-> to]

\* The variables pointers point to:
\*   1  n := 7                                  (VPtr(1) is &n)
\*   2  var p interface{}; p = &p               (VPtr(2) is p)
\*   3  type T struct{ Next *T }; t.Next = &t    (VPtr(3) is &t)
\*   4  s := make([]interface{}, 1); s[0] = s   (VRef(4) is s)
\*   5  m := map[string]interface{}{}; m["k"] = m
\*   6, 7  type P *P; var a, b P; a = &b; b = &a
Vars ==
    << VInt(7),
       VPtr(2),
       VStruct(<<Fld("Next", VPtr(3))>>),
       VSlice(<<VRef(4)>>),
       VMap("string", << <<VStr("k"), VRef(5)>> >>),
       VPtr(7),
       VPtr(6) >>

Resolve(value) == IF value.kind = "ref" THEN Vars[value.to] ELSE value

-----------------------------------------------------------------------------
(* Program constants.                                                      *)

noValue == "<no-value>"
defaultMaxLogDepth == 16
snipLen == 16

outputKeyValue == "outputKeyValue"
outputJSON == "outputJSON"

categoryNone == "categoryNone"
categoryAll == "categoryAll"
categoryError == "categoryError"
categoryWarning == "categoryWarning"
categoryInfo == "categoryInfo"
categoryDebug == "categoryDebug"

maxInt32 == 2147483647
VerbosityAll == maxInt32
VerbosityNone == 1 - 4
VerbosityError == VerbosityNone + 1
VerbosityWarning == VerbosityError + 1
VerbosityInfo == VerbosityWarning + 1
VerbosityDebug == VerbosityInfo + 1

-----------------------------------------------------------------------------
(* Strings.                                                                *)

CharAt(s, i) == SubSeq(s, i, i)

\* strconv.IsPrint over the bytes the model uses: the control characters
\* newline and tab are the non-printable ones.
IsPrint(c) == c \notin {"\n", "\t"}

needsEscape(s) ==
    \E i \in 1..Len(s) :
        LET r == CharAt(s, i) IN ~IsPrint(r) \/ r = "\\" \/ r = "\""

\* strconv.Quote, one byte at a time.
RECURSIVE QuoteBody(_)
QuoteBody(s) ==
    IF s = "" THEN ""
    ELSE LET c == Head(s)
             e == CASE c = "\"" -> "\\\""
                    [] c = "\\" -> "\\\\"
                    [] c = "\n" -> "\\n"
                    [] c = "\t" -> "\\t"
                    [] OTHER -> c
         IN  e \o QuoteBody(Tail(s))

Quote(s) == "\"" \o QuoteBody(s) \o "\""

\* prettyString as it would be if it never escaped.
prettyStringRaw(s) == "\"" \o s \o "\""

prettyString(s) ==
    IF needsEscape(s) THEN Quote(s) ELSE "\"" \o s \o "\""

\* strings.Index(s, ","): 0-based, -1 when absent.
RECURSIVE IndexFrom(_, _, _)
IndexFrom(s, c, i) ==
    IF i > Len(s) THEN -1
    ELSE IF CharAt(s, i) = c THEN i - 1
    ELSE IndexFrom(s, c, i + 1)

Index(s, c) == IndexFrom(s, c, 1)

Contains(s, sub) ==
    \E i \in 1..(Len(s) - Len(sub) + 1) : SubSeq(s, i, i + Len(sub) - 1) = sub

HasSuffix(s, suf) ==
    /\ Len(s) >= Len(suf)
    /\ SubSeq(s, Len(s) - Len(suf) + 1, Len(s)) = suf

FormatInt(n) == ToString(n)
FormatBool(b) == IF b THEN "true" ELSE "false"

-----------------------------------------------------------------------------
(* The key sanitizing of one list, as flatten and sanitize both do it on   *)
(* the elements of a slice: see the slice operations further down.         *)

isEmpty(v) ==
    CASE v.kind = "string" -> Len(v.s) = 0
      [] v.kind = "slice" -> Len(v.elems) = 0
      [] v.kind = "bool" -> ~v.b
      [] v.kind = "int" -> v.n = 0
      [] v.kind = "uint" -> v.u = UintZero
      [] v.kind = "nil" -> TRUE
      [] v.kind = "map" -> Len(v.entries) = 0
      [] v.kind = "ptr" -> v.to = 0
      [] OTHER -> FALSE

\* invokeMarshaler as it would be with a recover that drops the payload.
invokeMarshalerBare(m) ==
    IF m.marshal.panics THEN VStr("<panic>") ELSE m.marshal.ret

\* invokeMarshaler, invokeStringer, invokeError: the method's result, or
\* the text made of the recovered panic.
invokeMarshaler(m) ==
    IF m.marshal.panics THEN VStr("<panic: " \o m.marshal.payload \o ">")
    ELSE m.marshal.ret

invokeStringer(s) ==
    IF s.string.panics THEN "<panic: " \o s.string.payload \o ">"
    ELSE s.string.ret.s

invokeError(e) ==
    IF e.error.panics THEN "<panic: " \o e.error.payload \o ">"
    ELSE e.error.ret.s

\* One invocation of a method, on the value of the given name.
Invoked(method, value) == [method |-> method, on |-> value.name]

\* The dispatch as it would be with the error case before the Stringer case
\* and no Marshaler test.
dispatchErrorFirst(value) ==
    IF value.kind = "obj" /\ value.error.has
    THEN [value |-> VStr(invokeError(value)),
          calls |-> <<Invoked("Error", value)>>]
    ELSE IF value.kind = "obj" /\ value.string.has
    THEN [value |-> VStr(invokeStringer(value)),
          calls |-> <<Invoked("String", value)>>]
    ELSE [value |-> value, calls |-> <<>>]

\* The head of prettyWithFlags: the Marshaler test, then the type switch on
\* fmt.Stringer and error.  The value to render, and the methods invoked.
dispatch(value) ==
    LET self(m) ==
            IF m.value.kind = "obj" /\ m.value.string.has
            THEN [value |-> VStr(invokeStringer(m.value)),
                  calls |-> Append(m.calls, Invoked("String", m.value))]
            ELSE IF m.value.kind = "obj" /\ m.value.error.has
            THEN [value |-> VStr(invokeError(m.value)),
                  calls |-> Append(m.calls, Invoked("Error", m.value))]
            ELSE m
    IN  The({ self(m)
              : m \in { IF value.kind = "obj" /\ value.marshal.has
                        THEN [value |-> invokeMarshaler(value),
                              calls |-> <<Invoked("MarshalLog", value)>>]
                        ELSE [value |-> value, calls |-> <<>>] } })

RECURSIVE prettyWithFlags(_, _, _, _)
RECURSIVE prettyKind(_, _, _, _)
RECURSIVE prettyEntries(_, _, _, _)
RECURSIVE prettyPseudo(_, _, _, _)
RECURSIVE prettyFields(_, _, _, _, _)
RECURSIVE prettyElems(_, _, _, _)
RECURSIVE sanitizeKeys(_, _, _)
RECURSIVE sanitizeKeysEvery(_, _, _)

\* snippet as it would be without the cut to snipLen.
snippetWhole(f, v) == prettyWithFlags(f, v, FALSE, 0)

snippet(f, v) ==
    LET snip == prettyWithFlags(f, v, FALSE, 0)
    IN  IF Len(snip) > snipLen THEN SubSeq(snip, 1, snipLen) ELSE snip

nonStringKey(f, v) == "<non-string-key: " \o snippet(f, v) \o ">"

\* The loop of sanitize as it would be with i++ for i += 2.
sanitizeKeysEvery(f, kv, i) ==
    IF i > Len(kv) THEN kv
    ELSE sanitizeKeysEvery(f,
             IF IsString(kv[i]) THEN kv
             ELSE [kv EXCEPT ![i] = VStr(nonStringKey(f, kv[i]))],
             i + 1)

\* The loop of sanitize over the even (0-based) indices from i on.
sanitizeKeys(f, kv, i) ==
    IF i > Len(kv) THEN kv
    ELSE sanitizeKeys(f,
             IF IsString(kv[i]) THEN kv
             ELSE [kv EXCEPT ![i] = VStr(nonStringKey(f, kv[i]))],
             i + 2)

\* sanitize applied to a PseudoStruct held by value.
sanitizeList(f, kv) ==
    sanitizeKeys(f, IF Len(kv) % 2 # 0 THEN Append(kv, VStr(noValue)) ELSE kv, 1)

\* The PseudoStruct loop of prettyWithFlags, from entry i of the sanitized v.
prettyPseudo(f, v, i, depth) ==
    IF i > Len(v) THEN ""
    ELSE (IF i > 1 THEN "," ELSE "")
         \o prettyString(v[i].s) \o ":"
         \o prettyWithFlags(f, v[i + 1], FALSE, depth + 1)
         \o prettyPseudo(f, v, i + 2, depth)

\* The name the tag of a field gives it: the part before the first comma.
TagName(fld) ==
    LET comma == IF fld.hasTag THEN Index(fld.tag, ",") ELSE -1
    IN  IF ~fld.hasTag THEN ""
        ELSE IF comma # -1 THEN SubSeq(fld.tag, 1, comma)
        ELSE fld.tag

\* The tests of a field as they would be if any option of the tag stood
\* for omitempty.
OmittedAnyOption(fld) ==
    \/ fld.pkgPath # ""
    \/ fld.hasTag /\ fld.tag = "-"
    \/ fld.hasTag /\ Index(fld.tag, ",") # -1 /\ isEmpty(fld.val)

\* The struct loop's tests of a field: unexported, tagged "-", or empty
\* and tagged omitempty.
Omitted(fld) ==
    LET comma == IF fld.hasTag THEN Index(fld.tag, ",") ELSE -1
        tagRest == IF comma # -1 THEN SubSeq(fld.tag, comma + 1, Len(fld.tag))
                   ELSE ""
    IN  \/ fld.pkgPath # ""
        \/ fld.hasTag /\ fld.tag = "-"
        \/ /\ comma # -1
           /\ Contains(tagRest, ",omitempty,") \/ HasSuffix(tagRest, ",omitempty")
           /\ isEmpty(fld.val)

\* An embedded struct without a name of its own is rendered inline.
Inlined(fld) == fld.anonymous /\ fld.val.kind = "struct" /\ TagName(fld) = ""

\* What the struct loop writes before the value of field i (0-based).
FieldHead(fld, i) ==
    (IF i > 0 THEN "," ELSE "")
    \o (IF Inlined(fld) THEN ""
        ELSE "\"" \o (IF TagName(fld) = "" THEN fld.name ELSE TagName(fld))
             \o "\":")

\* The reflect.Struct loop of prettyWithFlags, from field i (0-based) on.
prettyFields(f, fields, i, rawStruct, depth) ==
    IF i >= Len(fields) THEN ""
    ELSE IF Omitted(fields[i + 1])
    THEN prettyFields(f, fields, i + 1, rawStruct, depth)
    ELSE FieldHead(fields[i + 1], i)
         \o prettyWithFlags(f, fields[i + 1].val, Inlined(fields[i + 1]),
                            depth + 1)
         \o prettyFields(f, fields, i + 1, rawStruct, depth)

\* The reflect.Slice loop of prettyWithFlags, from element i (0-based) on.
prettyElems(f, elems, i, depth) ==
    IF i >= Len(elems) THEN ""
    ELSE (IF i > 0 THEN "," ELSE "")
         \o prettyWithFlags(f, elems[i + 1], FALSE, depth + 1)
         \o prettyElems(f, elems, i + 1, depth)

\* The map loop of prettyWithFlags, from entry i (0-based) of the map m on.
prettyEntries(f, m, i, depth) ==
    IF i >= Len(m.entries) THEN ""
    ELSE (IF i > 0 THEN "," ELSE "")
         \o The({ IF m.keyKind # "string" THEN prettyString(keystr)
                  ELSE keystr
                  : keystr \in {prettyWithFlags(f, m.entries[i + 1][1], FALSE,
                                                depth + 1)} })
         \o ":"
         \o prettyWithFlags(f, m.entries[i + 1][2], FALSE, depth + 1)
         \o prettyEntries(f, m, i + 1, depth)

\* prettyWithFlags from its type switch on: value is the value the head
\* left.  rawStruct is the flag flagRawStruct.
prettyKind(f, value, rawStruct, depth) ==
    CASE value.kind = "bool" -> FormatBool(value.b)
      [] value.kind = "string" -> prettyString(value.s)
      [] value.kind = "int" -> FormatInt(value.n)
      [] value.kind = "uint" -> FormatUint(value.u)
      [] value.kind = "pseudo" ->
           (IF ~rawStruct THEN "{" ELSE "")
           \o prettyPseudo(f, sanitizeList(f, value.kv), 1, depth)
           \o (IF ~rawStruct THEN "}" ELSE "")
      [] value.kind = "nil" -> "null"
      [] value.kind = "struct" ->
           (IF ~rawStruct THEN "{" ELSE "")
           \o prettyFields(f, value.fields, 0, rawStruct, depth)
           \o (IF ~rawStruct THEN "}" ELSE "")
      [] value.kind = "slice" ->
           "[" \o prettyElems(f, value.elems, 0, depth) \o "]"
      [] value.kind = "map" ->
           "{" \o prettyEntries(f, value, 0, depth) \o "}"
      [] value.kind = "ptr" ->
           IF value.to = 0 THEN "null"
           ELSE prettyWithFlags(f, Vars[value.to], FALSE, depth)
      [] value.kind = "obj" -> prettyKind(f, value.under, rawStruct, depth)
      [] OTHER -> "\"<unhandled-" \o value.kind \o ">\""

\* prettyWithFlags as it would be with ">=" for ">" in its test of depth.
prettyWithFlagsShallow(f, value, rawStruct, depth) ==
    IF depth >= f.opts.maxLogDepth THEN "\"<max-log-depth-exceeded>\""
    ELSE prettyKind(f, dispatch(Resolve(value)).value, rawStruct, depth)

prettyWithFlags(f, value, rawStruct, depth) ==
    IF depth > f.opts.maxLogDepth THEN "\"<max-log-depth-exceeded>\""
    ELSE prettyKind(f, dispatch(Resolve(value)).value, rawStruct, depth)

pretty(f, value) == prettyWithFlags(f, value, FALSE, 0)

\* prettyWithFlags(value, flags, depth) never returns: the call reaches,
\* through calls of itself, a call on a pointer whose case
\*   return f.prettyWithFlags(v.Elem().Interface(), 0, depth)
\* leads, through calls of that case alone, to a call with the same pointer
\* and the same depth again.  seen holds the variables whose pointers the
\* calls at this depth have followed.
RECURSIVE NeverReturns(_, _, _, _)
RECURSIVE NeverReturnsKind(_, _, _, _)
NeverReturnsKind(f, value, depth, seen) ==
    CASE value.kind = "ptr" ->
           /\ value.to # 0
           /\ \/ value.to \in seen
              \/ NeverReturns(f, Vars[value.to], depth, seen \cup {value.to})
      [] value.kind = "slice" ->
           \E i \in 1..Len(value.elems) :
               NeverReturns(f, value.elems[i], depth + 1, {})
      [] value.kind = "struct" ->
           \E i \in 1..Len(value.fields) :
               /\ ~Omitted(value.fields[i])
               /\ NeverReturns(f, value.fields[i].val, depth + 1, {})
      [] value.kind = "pseudo" ->
           \E i \in 1..Len(value.kv) :
               IF i % 2 = 1
               THEN ~IsString(value.kv[i])
                    /\ NeverReturns(f, value.kv[i], 0, {})
               ELSE NeverReturns(f, value.kv[i], depth + 1, {})
      [] value.kind = "map" ->
           \E i \in 1..Len(value.entries), j \in 1..2 :
               NeverReturns(f, value.entries[i][j], depth + 1, {})
      [] value.kind = "obj" -> NeverReturnsKind(f, value.under, depth, seen)
      [] OTHER -> FALSE

NeverReturns(f, value, depth, seen) ==
    /\ depth <= f.opts.maxLogDepth
    /\ \E d \in {dispatch(Resolve(value))} :
          NeverReturnsKind(f, d.value, depth, seen)

\* render(builtins, args) never returns: sanitize renders a key that is no
\* string with snippet, flatten renders every value with pretty.
RenderNeverReturns(f, builtins, args) ==
    \E kv \in {builtins, args} : \E i \in 1..Len(kv) :
        (i % 2 = 0 \/ ~IsString(kv[i])) /\ NeverReturns(f, kv[i], 0, {})

\* The orders in which the range loops over the maps of a value may yield
\* their entries: the value with every map that stands in it at top level
\* or in slices in each order of its entries.
RECURSIVE MapOrders(_)
RECURSIVE MapOrdersAll(_)
MapOrdersAll(es) ==
    IF es = <<>> THEN {<<>>}
    ELSE { <<e>> \o rest : e \in MapOrders(Head(es)),
                           rest \in MapOrdersAll(Tail(es)) }

MapOrders(value) ==
    CASE value.kind = "map" ->
           { [value EXCEPT !.entries = [i \in 1..Len(value.entries) |->
                                           value.entries[perm[i]]]]
             : perm \in { q \in [1..Len(value.entries) -> 1..Len(value.entries)] :
                            \A i, j \in 1..Len(value.entries) :
                                i # j => q[i] # q[j] } }
      [] value.kind = "slice" ->
           { [value EXCEPT !.elems = es] : es \in MapOrdersAll(value.elems) }
      [] OTHER -> {value}

-----------------------------------------------------------------------------
(* Go slices over the heap.  A slice is (arr, len, cap): arr is the        *)
(* address of its backing array in heap (0 for a nil slice) and every      *)
(* slice of the program starts at element 0 of its array.  A heap cell     *)
(* holding <<>> is free.                                                   *)

HeapSize == MaxLoggers + MaxDerived + 2 * MaxThreads + 4

NilSlice == [arr |-> 0, len |-> 0, cap |-> 0]

EmptyHeap == [i \in 1..HeapSize |-> <<>>]

Elems(h, s) == IF s.len = 0 THEN <<>> ELSE SubSeq(h[s.arr], 1, s.len)

NewArr(h) == CHOOSE i \in 1..HeapSize :
                 /\ h[i] = <<>>
                 /\ \A j \in 1..(i - 1) : h[j] # <<>>

\* The zero values of the elements of a fresh array.
baseCap == 64
Zeros == [j \in 1..(2 * baseCap) |-> VNil]

\* make([]interface{}, len(es), c) filled with es.
MakeSlice(h, es, c) ==
    IF c = 0 THEN [heap |-> h, s |-> NilSlice]
    ELSE LET a == NewArr(h)
         IN  [heap |-> [h EXCEPT ![a] = es \o SubSeq(Zeros, 1, c - Len(es))],
              s |-> [arr |-> a, len |-> Len(es), cap |-> c]]

\* The capacity runtime.growslice gives a grown slice of small size.
growCap(oldCap, needed) ==
    IF needed > 2 * oldCap THEN needed ELSE 2 * oldCap

\* s[i] = es[i] for the elements s holds, written to its backing array.
Store(h, s, es) ==
    IF s.len = 0 THEN h
    ELSE [h EXCEPT ![s.arr] = es \o SubSeq(h[s.arr], s.len + 1, s.cap)]

\* The builtin append(s, es...).
goAppend(h, s, es) ==
    IF Len(es) = 0 THEN [heap |-> h, s |-> s]
    ELSE IF s.len + Len(es) <= s.cap
    THEN LET s2 == [s EXCEPT !.len = s.len + Len(es)]
         IN  [heap |-> Store(h, s2, Elems(h, s) \o es), s |-> s2]
    ELSE MakeSlice(h, Elems(h, s) \o es, growCap(s.cap, s.len + Len(es)))

\* The slice expression s[:n:n].
Slice3(s, n) == IF n = 0 THEN [s EXCEPT !.len = 0, !.cap = 0]
                ELSE [s EXCEPT !.len = n, !.cap = n]

\* kvList[i] = f.nonStringKey(kvList[i]) for every even (0-based) index i
\* whose entry is no string, written through to the backing array of kvList.
fixKeys(f, h, s) ==
    LET es == Elems(h, s)
        fixed == sanitizeKeys(f, es, 1)
    IN  IF fixed = es THEN h ELSE Store(h, s, fixed)

-----------------------------------------------------------------------------
(* Formatter.                                                              *)

\* fmtOptions as the caller of newFormatter writes them.
fmtOptions(logCaller, logCallerFunc, logTimestamp, maxLogDepth, outputFormat) ==
    [logCaller |-> logCaller, logCallerFunc |-> logCallerFunc,
     logTimestamp |-> logTimestamp, timestampFormat |-> "",
     maxLogDepth |-> maxLogDepth, outputFormat |-> outputFormat,
     callerDepth |-> 0]

defaultTimestampFormat == "2006-01-02 15:04:05.000000"

newFormatter(opts) ==
    LET o1 == IF opts.timestampFormat = ""
              THEN [opts EXCEPT !.timestampFormat = defaultTimestampFormat]
              ELSE opts
        o2 == IF o1.maxLogDepth = 0
              THEN [o1 EXCEPT !.maxLogDepth = defaultMaxLogDepth]
              ELSE o1
    IN  [prefix |-> "root", values |-> NilSlice, valuesStr |-> "", opts |-> o2]

Separator(f) == IF f.opts.outputFormat = outputJSON THEN "," ELSE " "

\* The loop of flatten as it would be with "if i > 0" for its separator test.
RECURSIVE flattenPairsBare(_, _, _, _, _)
flattenPairsBare(f, kv, i, continuing, escapeKeys) ==
    IF i >= Len(kv) THEN ""
    ELSE LET k == kv[i + 1].s
             v == kv[i + 2]
         IN  (IF i > 0 THEN Separator(f) ELSE "")
             \o (IF escapeKeys THEN prettyString(k) ELSE "\"" \o k \o "\"")
             \o (IF f.opts.outputFormat = outputJSON THEN ":" ELSE "=")
             \o pretty(f, v)
             \o flattenPairsBare(f, kv, i + 2, continuing, escapeKeys)

\* The loop of flatten over the pairs of kv from pair index i (0-based, even).
RECURSIVE flattenPairs(_, _, _, _, _)
flattenPairs(f, kv, i, continuing, escapeKeys) ==
    IF i >= Len(kv) THEN ""
    ELSE LET k == kv[i + 1].s
             v == kv[i + 2]
         IN  (IF i > 0 \/ continuing THEN Separator(f) ELSE "")
             \o (IF escapeKeys THEN prettyString(k) ELSE "\"" \o k \o "\"")
             \o (IF f.opts.outputFormat = outputJSON THEN ":" ELSE "=")
             \o pretty(f, v)
             \o flattenPairs(f, kv, i + 2, continuing, escapeKeys)

\* flatten: what it appends to buf, the kvList it returns, the heap it leaves.
flatten(f, h, kvList, continuing, escapeKeys) ==
    LET keys(a) ==
            The({ [heap |-> h2, kvList |-> a.s,
                   buf |-> flattenPairs(f, Elems(h2, a.s), 0, continuing,
                                        escapeKeys)]
                  : h2 \in {fixKeys(f, a.heap, a.s)} })
    IN  The({ keys(a)
              : a \in { IF kvList.len % 2 # 0
                        THEN goAppend(h, kvList, <<VStr(noValue)>>)
                        ELSE [heap |-> h, s |-> kvList] } })

\* sanitize as it would be without the test of the list's length.
sanitizeNoPad(f, h, kvList) ==
    [heap |-> fixKeys(f, h, kvList), kvList |-> kvList]

sanitize(f, h, kvList) ==
    The({ [heap |-> fixKeys(f, a.heap, a.s), kvList |-> a.s]
          : a \in { IF kvList.len % 2 # 0
                    THEN goAppend(h, kvList, <<VStr(noValue)>>)
                    ELSE [heap |-> h, s |-> kvList] } })

\* render as it would be with the call-site fields flattened before the
\* persisted text is written.
renderArgsFirst(f, h, builtins, args) ==
    LET open == IF f.opts.outputFormat = outputJSON THEN "{" ELSE ""
        continuing == builtins.len > 0
        continuing2 == continuing \/ args.len > 0
        vals == IF Len(f.valuesStr) > 0
                THEN (IF continuing2 THEN Separator(f) ELSE "") \o f.valuesStr
                ELSE ""
        close == IF f.opts.outputFormat = outputJSON THEN "}" ELSE ""
        rest(b) ==
            The({ [heap |-> a.heap,
                   buf |-> open \o b.buf \o a.buf \o vals \o close \o "\n"]
                  : a \in {flatten(f, b.heap, args, continuing, TRUE)} })
    IN  The({ rest(b) : b \in {flatten(f, h, builtins, FALSE, FALSE)} })

\* render as it would be with the closing brace written only after a
\* call-site field.
renderCloseAfterArgs(f, h, builtins, args) ==
    LET open == IF f.opts.outputFormat = outputJSON THEN "{" ELSE ""
        continuing == builtins.len > 0
        vals == IF Len(f.valuesStr) > 0
                THEN (IF continuing THEN Separator(f) ELSE "") \o f.valuesStr
                ELSE ""
        continuing2 == continuing \/ Len(f.valuesStr) > 0
        close == IF f.opts.outputFormat = outputJSON /\ args.len > 0
                 THEN "}" ELSE ""
        rest(b) ==
            The({ [heap |-> a.heap,
                   buf |-> open \o b.buf \o vals \o a.buf \o close \o "\n"]
                  : a \in {flatten(f, b.heap, args, continuing2, TRUE)} })
    IN  The({ rest(b) : b \in {flatten(f, h, builtins, FALSE, FALSE)} })

\* render: the line, and the heap it leaves.
render(f, h, builtins, args) ==
    LET open == IF f.opts.outputFormat = outputJSON THEN "{" ELSE ""
        continuing == builtins.len > 0
        vals == IF Len(f.valuesStr) > 0
                THEN (IF continuing THEN Separator(f) ELSE "") \o f.valuesStr
                ELSE ""
        continuing2 == continuing \/ Len(f.valuesStr) > 0
        close == IF f.opts.outputFormat = outputJSON THEN "}" ELSE ""
        rest(b) ==
            The({ [heap |-> a.heap,
                   buf |-> open \o b.buf \o vals \o a.buf \o close \o "\n"]
                  : a \in {flatten(f, b.heap, args, continuing2, TRUE)} })
    IN  The({ rest(b) : b \in {flatten(f, h, builtins, FALSE, FALSE)} })

\* The text time.Now().Format(f.opts.timestampFormat) yields.
TimeNow == "t"

\* base as it would be with the timestamp appended after the logger's name.
baseTimeLast(f, level) ==
    <<VStr("level"), VStr(level), VStr("logger"), VStr(f.prefix)>>
    \o (IF f.opts.logTimestamp THEN <<VStr("time"), VStr(TimeNow)>> ELSE <<>>)

\* base, as the list of entries it returns (a slice of capacity baseCap).
base(f, level) ==
    (IF f.opts.logTimestamp THEN <<VStr("time"), VStr(TimeNow)>> ELSE <<>>)
    \o <<VStr("level"), VStr(level), VStr("logger"), VStr(f.prefix)>>

\* AddName as it would be without the '/' between the name elements.
AddNameJoined(f, name) == [f EXCEPT !.prefix = f.prefix \o name]

AddName(f, name) ==
    [f EXCEPT !.prefix = (IF Len(f.prefix) > 0 THEN f.prefix \o "/" ELSE "")
                         \o name]

\* The first statement of AddValues as it would be without the three-index
\* slice: f.values = append(f.values, kvList...)
appendValuesInPlace(f, h, kvList) ==
    LET a == goAppend(h, f.values, Elems(h, kvList))
    IN  [heap |-> a.heap, f |-> [f EXCEPT !.values = a.s]]

\* n := len(f.values); f.values = append(f.values[:n:n], kvList...)
appendValues(f, h, kvList) ==
    LET n == f.values.len
        a == goAppend(h, Slice3(f.values, n), Elems(h, kvList))
    IN  [heap |-> a.heap, f |-> [f EXCEPT !.values = a.s]]

\* AddValues as it would be without its pre-rendering: valuesStr is left as
\* the clone got it.
preRenderNever(f, h) == [heap |-> h, f |-> f]

\* f.flatten(buf, f.values, false, true); f.valuesStr = buf.String()
preRender(f, h) ==
    The({ [heap |-> r.heap, f |-> [f EXCEPT !.valuesStr = r.buf]]
          : r \in {flatten(f, h, f.values, FALSE, TRUE)} })

\* AddValues: the formatter and the heap it leaves.
AddValues(f, h, kvList) ==
    The({ preRender(a.f, a.heap) : a \in {appendValues(f, h, kvList)} })

\* caller: the Caller struct for the frame runtime.Caller reports.
caller(f, site) ==
    IF ~site.ok
    THEN VStruct(<<FldTag("File", "file", VStr("<unknown>")),
                   FldTag("Line", "line", VInt(0)),
                   FldTag("Func", "function,omitempty", VStr(""))>>)
    ELSE VStruct(<<FldTag("File", "file", VStr(site.file)),
                   FldTag("Line", "line", VInt(site.line)),
                   FldTag("Func", "function,omitempty",
                          VStr(IF f.opts.logCallerFunc THEN site.fn ELSE ""))>>)

-----------------------------------------------------------------------------
(* basicLogger.                                                            *)

newBasicLogger(fmt, sink, verbosity) ==
    [fmt |-> fmt, sink |-> sink, debugL |-> UintZero,
     verbosity |-> verbosity]

\* clone as it would be without the copy: return l.
cloneShared(ls, l) == [loggers |-> ls, addr |-> l]

\* clone: c := *l; return &c.  The store with the copy, and the copy's address.
clone(ls, l) == [loggers |-> Append(ls, ls[l]), addr |-> Len(ls) + 1]

\* The arrays that neither a logger's values nor a running call's
\* keysAndValues refer to are garbage once a call returns.
Collect(h, ls, ts) ==
    LET live == {ls[l].fmt.values.arr : l \in 1..Len(ls)}
                \cup {ts[t].kv.arr : t \in 1..Len(ts)}
    IN  [i \in 1..HeapSize |-> IF i \in live THEN h[i] ELSE <<>>]

\* The record of one call: the method, the receiver's address, what it
\* returned (the address of a logger, a slice, a line; 0: nothing), the
\* builtin fields it rendered, the key/value list passed and its backing
\* array as the call left it, and the buffers handed to sink.Write.
Call(op, recv, ret, builtins, args, argArr, writes) ==
    [op |-> op, recv |-> recv, ret |-> ret, builtins |-> builtins,
     args |-> args, argArr |-> argArr, writes |-> writes]

ArrOf(h, s) == IF s.arr = 0 THEN <<>> ELSE h[s.arr]

\* The record of one log call: as Call, with the diagnostics the call
\* printed with fmt.Printf and whether the call returned to its caller.
LogCall(op, recv, builtins, args, argArr, writes, diag, returned) ==
    [op |-> op, recv |-> recv, ret |-> 0, builtins |-> builtins,
     args |-> args, argArr |-> argArr, writes |-> writes, diag |-> diag,
     returned |-> returned]

\* The sinks: "w" is a writer whose Write never fails (a bytes.Buffer),
\* "flaky" a writer whose Write may return an error.  The errors a Write on
\* the sink may return: FALSE stands for nil.
WriteErrors(sink) == IF sink = "flaky" THEN {FALSE, TRUE} ELSE {FALSE}

\* What a logger is to its users: its fields, the slice values by content.
View(ls, h, l) ==
    [prefix |-> ls[l].fmt.prefix, values |-> Elems(h, ls[l].fmt.values),
     valuesStr |-> ls[l].fmt.valuesStr, opts |-> ls[l].fmt.opts,
     sink |-> ls[l].sink, debugL |-> ls[l].debugL,
     verbosity |-> ls[l].verbosity]

-----------------------------------------------------------------------------
(* Inputs of the logger's methods.                                         *)

Names == {"a", "b"}
Msgs == {"m"}
Errs == {VNil, NewError("e")}
VLevels == {Uint(1)}
Sites == {[ok |-> TRUE, file |-> "x.go", line |-> 7, fn |-> "p.F"]}

\* Key/value lists given to WithValues: a sane pair, a dangling key.
WithKV == { <<VStr("k"), VStr("v")>>, <<VStr("d")>> }

\* Key/value lists given to a log call: a sane pair (its key the one of
\* WithKV's pair), a dangling key that is no string.
LogKV == { <<VStr("k"), VStr("w")>>, <<VInt(7)>> }

OptionInputs ==
    { fmtOptions(categoryNone, FALSE, FALSE, 0, o) :
        o \in {outputKeyValue, outputJSON} }

VerbosityInputs ==
    {VerbosityNone, VerbosityError, VerbosityWarning, VerbosityInfo,
     VerbosityDebug, VerbosityAll}

-----------------------------------------------------------------------------
(* The operations of basicLogger.                                          *)

WithName(l, name) ==
    \E c \in {clone(loggers, l)} :
        /\ loggers' = [c.loggers EXCEPT ![c.addr].fmt = AddName(@, name)]
        /\ heap' = heap
        /\ last' = Call("WithName", l, c.addr, <<>>, <<VStr(name)>>, <<>>, <<>>)
        /\ UNCHANGED <<threads, registry, writers>>

\* The caller's keysAndValues is a slice of its own, of capacity len + spare.
WithValues(l, kv, spare) ==
    \E a \in {MakeSlice(heap, kv, Len(kv) + spare)}, c \in {clone(loggers, l)} :
    \E r \in {AddValues(c.loggers[c.addr].fmt, a.heap, a.s)} :
    \E ls \in {[c.loggers EXCEPT ![c.addr].fmt = r.f]} :
        /\ loggers' = ls
        /\ heap' = Collect(r.heap, ls, threads)
        /\ last' = Call("WithValues", l, c.addr, <<>>, kv, ArrOf(r.heap, a.s),
                        <<>>)
        /\ UNCHANGED <<threads, registry, writers>>

V(l, level) ==
    \E c \in {clone(loggers, l)} :
        /\ loggers' = [c.loggers EXCEPT ![c.addr].debugL = AddUint(@, level)]
        /\ heap' = heap
        /\ last' = Call("V", l, c.addr, <<>>, <<VUint(level)>>, <<>>, <<>>)
        /\ UNCHANGED <<threads, registry, writers>>

\* emit as it would be if a log call gave up writing after a failed Write.
emitUntilError(op, l, builtins, kv, spare) ==
    \E a \in {MakeSlice(heap, kv, Len(kv) + spare)} :
    \E b \in {MakeSlice(a.heap, builtins, baseCap)} :
    \E r \in {render(loggers[l].fmt, b.heap, b.s, a.s)} :
    \E werr \in WriteErrors(loggers[l].sink) :
        /\ loggers' = loggers
        /\ heap' = Collect(r.heap, loggers, threads)
        /\ last' = LogCall(op, l, builtins, kv, ArrOf(r.heap, a.s),
                           IF last.op \in {"Debug", "Info", "Warning", "Error"}
                              /\ last.diag # <<>>
                           THEN <<>> ELSE <<r.buf>>,
                           IF werr
                           THEN <<"log." \o op \o ": unable to write buffer: "
                                  \o r.buf \o "\n">>
                           ELSE <<>>,
                           TRUE)
        /\ UNCHANGED <<threads, registry, writers>>

\* args := ...; buf := l.fmt.render(args, keysAndValues);
\* if _, err := l.sink.Write(buf); err != nil { fmt.Printf(...) }
emit(op, l, builtins, kv, spare) ==
    IF RenderNeverReturns(loggers[l].fmt, builtins, kv)
    THEN /\ loggers' = loggers
         /\ heap' = heap
         /\ last' = LogCall(op, l, builtins, kv, kv, <<>>, <<>>, FALSE)
         /\ UNCHANGED <<threads, registry, writers>>
    ELSE
    \E a \in {MakeSlice(heap, kv, Len(kv) + spare)} :
    \E b \in {MakeSlice(a.heap, builtins, baseCap)} :
    \E r \in {render(loggers[l].fmt, b.heap, b.s, a.s)} :
    \E werr \in WriteErrors(loggers[l].sink) :
        /\ loggers' = loggers
        /\ heap' = Collect(r.heap, loggers, threads)
        /\ last' = LogCall(op, l, builtins, kv, ArrOf(r.heap, a.s),
                           <<r.buf>>,
                           IF werr
                           THEN <<"log." \o op \o ": unable to write buffer: "
                                  \o r.buf \o "\n">>
                           ELSE <<>>,
                           TRUE)
        /\ UNCHANGED <<threads, registry, writers>>

\* The call returns without having rendered or written anything.
skip(op, l, kv) ==
    /\ loggers' = loggers
    /\ heap' = heap
    /\ last' = LogCall(op, l, <<>>, kv, kv, <<>>, <<>>, TRUE)
    /\ UNCHANGED <<threads, registry, writers>>

Debug(l, msg, kv, spare, site) ==
    LET lg == loggers[l]
        policy == lg.fmt.opts.logCaller
    IN  IF GeInt(IntOfLevel(lg.verbosity), IntOfUint(lg.debugL))
        THEN emit("Debug", l,
                  base(lg.fmt, "debug")
                  \o (IF lg.debugL # UintZero
                      THEN <<VStr("v"), VUint(lg.debugL)>> ELSE <<>>)
                  \o (IF policy = categoryAll \/ policy = categoryDebug
                      THEN <<VStr("caller"), caller(lg.fmt, site)>> ELSE <<>>)
                  \o <<VStr("msg"), VStr(msg)>>,
                  kv, spare)
        ELSE skip("Debug", l, kv)

\* Info as it would be with ">" for ">=" in its test of the verbosity.
InfoAbove(l, msg, kv, spare, site) ==
    LET lg == loggers[l]
        policy == lg.fmt.opts.logCaller
    IN  IF lg.verbosity > VerbosityInfo
        THEN emit("Info", l,
                  base(lg.fmt, "info")
                  \o (IF policy = categoryAll \/ policy = categoryInfo
                      THEN <<VStr("caller"), caller(lg.fmt, site)>> ELSE <<>>)
                  \o <<VStr("msg"), VStr(msg)>>,
                  kv, spare)
        ELSE skip("Info", l, kv)

Info(l, msg, kv, spare, site) ==
    LET lg == loggers[l]
        policy == lg.fmt.opts.logCaller
    IN  IF lg.verbosity >= VerbosityInfo
        THEN emit("Info", l,
                  base(lg.fmt, "info")
                  \o (IF policy = categoryAll \/ policy = categoryInfo
                      THEN <<VStr("caller"), caller(lg.fmt, site)>> ELSE <<>>)
                  \o <<VStr("msg"), VStr(msg)>>,
                  kv, spare)
        ELSE skip("Info", l, kv)

\* Warning as it would be with the caller policy of Info in its test.
WarningAsInfo(l, msg, kv, spare, site) ==
    LET lg == loggers[l]
        policy == lg.fmt.opts.logCaller
    IN  IF lg.verbosity >= VerbosityWarning
        THEN emit("Warning", l,
                  base(lg.fmt, "warning")
                  \o (IF policy = categoryAll \/ policy = categoryInfo
                      THEN <<VStr("caller"), caller(lg.fmt, site)>> ELSE <<>>)
                  \o <<VStr("msg"), VStr(msg)>>,
                  kv, spare)
        ELSE skip("Warning", l, kv)

Warning(l, msg, kv, spare, site) ==
    LET lg == loggers[l]
        policy == lg.fmt.opts.logCaller
    IN  IF lg.verbosity >= VerbosityWarning
        THEN emit("Warning", l,
                  base(lg.fmt, "warning")
                  \o (IF policy = categoryAll \/ policy = categoryWarning
                      THEN <<VStr("caller"), caller(lg.fmt, site)>> ELSE <<>>)
                  \o <<VStr("msg"), VStr(msg)>>,
                  kv, spare)
        ELSE skip("Warning", l, kv)

\* err is VNil for a nil error, else a value with the method Error.  A
\* panic of err.Error() leaves the call through its caller.
Error(l, err, msg, kv, spare, site) ==
    LET lg == loggers[l]
        policy == lg.fmt.opts.logCaller
    IN  IF lg.verbosity >= VerbosityError
        THEN IF err # VNil /\ err.error.panics
             THEN /\ loggers' = loggers
                  /\ heap' = heap
                  /\ last' = LogCall("Error", l, <<>>, kv, kv, <<>>, <<>>,
                                     FALSE)
                  /\ UNCHANGED <<threads, registry, writers>>
             ELSE emit("Error", l,
                       base(lg.fmt, "error")
                       \o (IF policy = categoryAll \/ policy = categoryError
                           THEN <<VStr("caller"), caller(lg.fmt, site)>>
                           ELSE <<>>)
                       \o <<VStr("msg"), VStr(msg)>>
                       \o <<VStr("error"),
                            IF err = VNil THEN VNil ELSE err.error.ret>>,
                       kv, spare)
        ELSE skip("Error", l, kv)

-----------------------------------------------------------------------------
(* The logger: a root logger built by newBasicLogger(newFormatter(opts),   *)
(* sink, verbosity), then any calls of its methods and of the methods of   *)
(* the loggers derived from it.                                            *)

Init ==
    \E opts \in OptionInputs, v \in VerbosityInputs :
        /\ loggers = <<newBasicLogger(newFormatter(opts), "w", v)>>
        /\ heap = EmptyHeap
        /\ last = Call("newBasicLogger", 0, 1, <<>>, <<>>, <<>>, <<>>)
        /\ threads = <<>>
        /\ registry = emptyRegistry
        /\ writers = <<>>

\* A behaviour allocates at most n loggers.
Room(n) == Len(loggers) < n

Next ==
    \/ \E l \in 1..Len(loggers), name \in {"a"} :
          Room(MaxLoggers) /\ WithName(l, name)
    \/ \E l \in 1..Len(loggers), kv \in WithKV :
          Room(MaxLoggers) /\ WithValues(l, kv, 0)
    \/ \E l \in 1..Len(loggers), level \in VLevels :
          Room(MaxLoggers) /\ V(l, level)
    \/ \E l \in 1..Len(loggers), msg \in Msgs, kv \in LogKV, site \in Sites :
          Debug(l, msg, kv, 0, site)
    \/ \E l \in 1..Len(loggers), msg \in Msgs, kv \in LogKV, site \in Sites :
          Info(l, msg, kv, 0, site)
    \/ \E l \in 1..Len(loggers), msg \in Msgs, kv \in LogKV, site \in Sites :
          Warning(l, msg, kv, 0, site)
    \/ \E l \in 1..Len(loggers), msg \in Msgs, kv \in LogKV, site \in Sites,
           err \in Errs :
          Error(l, err, msg, kv, 0, site)

Spec == Init /\ [][Next]_vars

-----------------------------------------------------------------------------
(* Derivation alone: a root logger, then WithName, WithValues and V on it  *)
(* and on the loggers derived from it.                                     *)

\* Key/value lists given to WithValues: none, a sane pair, a dangling key,
\* a pair whose key is no string.
DeriveKV == { <<>>, <<VStr("k"), VStr("v")>>, <<VStr("d")>>,
              <<VInt(7), VStr("x")>> }

InitDerive ==
    \E opts \in OptionInputs :
        /\ loggers = <<newBasicLogger(newFormatter(opts), "w", VerbosityInfo)>>
        /\ heap = EmptyHeap
        /\ last = Call("newBasicLogger", 0, 1, <<>>, <<>>, <<>>, <<>>)
        /\ threads = <<>>
        /\ registry = emptyRegistry
        /\ writers = <<>>

NextDerive ==
    \/ \E l \in 1..Len(loggers), name \in Names :
          Room(1 + MaxDerived) /\ WithName(l, name)
    \/ \E l \in 1..Len(loggers), kv \in DeriveKV :
          Room(1 + MaxDerived) /\ WithValues(l, kv, 0)
    \/ \E l \in 1..Len(loggers), level \in VLevels :
          Room(1 + MaxDerived) /\ V(l, level)

SpecDerive == InitDerive /\ [][NextDerive]_vars

-----------------------------------------------------------------------------
(* V levels: a root logger of any verbosity, then V calls with small and   *)
(* with large levels and Debug calls on the loggers they return.           *)

\* Levels given to V: 1, 2, 1<<63, 1<<64 - 1.
WideLevels == {Uint(1), Uint(2), UintTop, UintMax}

LevelOptions == {fmtOptions(categoryNone, FALSE, FALSE, 0, outputKeyValue)}

InitLevel ==
    \E opts \in LevelOptions, v \in VerbosityInputs :
        /\ loggers = <<newBasicLogger(newFormatter(opts), "w", v)>>
        /\ heap = EmptyHeap
        /\ last = Call("newBasicLogger", 0, 1, <<>>, <<>>, <<>>, <<>>)
        /\ threads = <<>>
        /\ registry = emptyRegistry
        /\ writers = <<>>

NextLevel ==
    \/ \E l \in 1..Len(loggers), level \in WideLevels :
          Room(1 + MaxDerived) /\ V(l, level)
    \/ \E l \in 1..Len(loggers), msg \in Msgs, site \in Sites :
          Debug(l, msg, <<>>, 0, site)

SpecLevel == InitLevel /\ [][NextLevel]_vars

-----------------------------------------------------------------------------
(* The builtin fields: root loggers of every caller policy, with and       *)
(* without timestamps, in both formats and at the verbosity VerbosityAll,  *)
(* the loggers V and WithValues derive from them, and the four log calls.  *)

Policies == {categoryNone, categoryAll, categoryError, categoryWarning,
             categoryInfo, categoryDebug}

LineOptions ==
    { fmtOptions(policy, FALSE, ts, 0, o) :
        policy \in Policies, ts \in BOOLEAN,
        o \in {outputKeyValue, outputJSON} }

\* Key/value lists given to a log call: none, a pair with the key "caller".
LineKV == { <<>>, <<VStr("caller"), VStr("u")>> }

InitLine ==
    \E opts \in LineOptions :
        /\ loggers = <<newBasicLogger(newFormatter(opts), "w", VerbosityAll)>>
        /\ heap = EmptyHeap
        /\ last = Call("newBasicLogger", 0, 1, <<>>, <<>>, <<>>, <<>>)
        /\ threads = <<>>
        /\ registry = emptyRegistry
        /\ writers = <<>>

NextLine ==
    \/ \E l \in 1..Len(loggers), kv \in WithKV :
          Room(MaxLoggers) /\ WithValues(l, kv, 0)
    \/ \E l \in 1..Len(loggers), level \in VLevels :
          Room(MaxLoggers) /\ V(l, level)
    \/ \E l \in 1..Len(loggers), msg \in Msgs, kv \in LineKV, site \in Sites :
          Debug(l, msg, kv, 0, site)
    \/ \E l \in 1..Len(loggers), msg \in Msgs, kv \in LineKV, site \in Sites :
          Info(l, msg, kv, 0, site)
    \/ \E l \in 1..Len(loggers), msg \in Msgs, kv \in LineKV, site \in Sites :
          Warning(l, msg, kv, 0, site)
    \/ \E l \in 1..Len(loggers), msg \in Msgs, kv \in LineKV, site \in Sites,
           err \in Errs :
          Error(l, err, msg, kv, 0, site)

SpecLine == InitLine /\ [][NextLine]_vars

-----------------------------------------------------------------------------
(* A sink that fails: a root logger of any verbosity over a writer whose   *)
(* Write may return an error, a logger derived from it, and the four log   *)
(* calls.                                                                  *)

InitSink ==
    \E opts \in LevelOptions, v \in VerbosityInputs :
        /\ loggers = <<newBasicLogger(newFormatter(opts), "flaky", v)>>
        /\ heap = EmptyHeap
        /\ last = Call("newBasicLogger", 0, 1, <<>>, <<>>, <<>>, <<>>)
        /\ threads = <<>>
        /\ registry = emptyRegistry
        /\ writers = <<>>

NextSink ==
    \/ \E l \in 1..Len(loggers), kv \in WithKV :
          Room(MaxLoggers) /\ WithValues(l, kv, 0)
    \/ \E l \in 1..Len(loggers), msg \in Msgs, kv \in LogKV, site \in Sites :
          Debug(l, msg, kv, 0, site)
    \/ \E l \in 1..Len(loggers), msg \in Msgs, kv \in LogKV, site \in Sites :
          Info(l, msg, kv, 0, site)
    \/ \E l \in 1..Len(loggers), msg \in Msgs, kv \in LogKV, site \in Sites :
          Warning(l, msg, kv, 0, site)
    \/ \E l \in 1..Len(loggers), msg \in Msgs, kv \in LogKV, site \in Sites,
           err \in Errs :
          Error(l, err, msg, kv, 0, site)

SpecSink == InitSink /\ [][NextSink]_vars

-----------------------------------------------------------------------------
(* The value renderer: pretty on values with methods, on nested values, on *)
(* pointers and cyclic values and on maps, under each maxLogDepth, and the *)
(* log calls that carry such a value or such an error.                     *)

\* Values with methods, after the types of the tests: Tmarshaler,
\* Tstringer, Terror, their panicking kin, and values whose MarshalLog
\* returns a value that has methods itself.
Tstringer == VObj("Tstringer", NoMethod, Returns(VStr("S")), NoMethod,
                  VStruct(<<>>))
Terror == VObj("Terror", NoMethod, NoMethod, Returns(VStr("E")),
               VStruct(<<>>))
Tplain == VObj("Tplain", NoMethod, NoMethod, NoMethod, VInt(5))
Tinner == VObj("Tinner", Returns(VStr("N")), NoMethod, NoMethod, VInt(6))

MethodValues ==
    { VObj("Tall", Returns(VStr("M")), Returns(VStr("S")), Returns(VStr("E")),
           VStruct(<<>>)),
      VObj("Tboth", NoMethod, Returns(VStr("S")), Returns(VStr("E")),
           VStruct(<<>>)),
      Tstringer, Terror, Tplain,
      VObj("Tmarshaler", Returns(VSlice(<<VInt(1)>>)), NoMethod, NoMethod,
           VStruct(<<>>)),
      VObj("TtoStringer", Returns(Tstringer), NoMethod, Returns(VStr("E")),
           VStruct(<<>>)),
      VObj("TtoError", Returns(Terror), Returns(VStr("S")), NoMethod,
           VStruct(<<>>)),
      VObj("TtoMarshaler", Returns(Tinner), NoMethod, NoMethod,
           VStruct(<<>>)) }

PanicValues ==
    { VObj("Tmarshalerpanic", Panics("boom"), Returns(VStr("S")), NoMethod,
           VStruct(<<>>)),
      VObj("Tstringerpanic", NoMethod, Panics("boom"), Returns(VStr("E")),
           VStruct(<<>>)),
      VObj("Terrorpanic", NoMethod, NoMethod, Panics("boom"), VStruct(<<>>)),
      VObj("TtoPanic", Returns(VObj("Tstringerpanic", NoMethod, Panics("in"),
                                    NoMethod, VStruct(<<>>))),
           NoMethod, NoMethod, VStruct(<<>>)) }

\* The kinds that pass depth+1 to their elements.
NestKinds == {"slice", "struct", "pseudo", "map"}

\* One value of the kind around the value inner.
Around(kind, inner) ==
    CASE kind = "slice" -> VSlice(<<inner>>)
      [] kind = "struct" -> VStruct(<<Fld("F", inner)>>)
      [] kind = "pseudo" -> VPseudo(<<VStr("p"), inner>>)
      [] kind = "map" -> VMap("string", << <<VStr("k"), inner>> >>)

\* The leaf under d values of the kind.
RECURSIVE Nest(_, _, _)
Nest(kind, d, leaf) ==
    IF d = 0 THEN leaf ELSE Around(kind, Nest(kind, d - 1, leaf))

NestDepths == 0..MaxNest \cup {defaultMaxLogDepth, defaultMaxLogDepth + 1}

\* The leaves: an int, and &n for the variable n := 7.
NestLeaves == {VInt(1), VPtr(1)}

NestValues ==
    { Nest(kind, d, leaf) : kind \in NestKinds, d \in NestDepths,
                            leaf \in NestLeaves }

\* Pointers: nil, &n, and the values that reach themselves.
CyclicValues ==
    { VPtr(2), VPtr(3), Vars[3], VRef(4), VRef(5), VPtr(6),
      VSlice(<<VPtr(2)>>) }

\* Maps of two and three keys, at top level and in a slice.
MapValues ==
    { VMap("string", << <<VStr("a"), VInt(1)>>, <<VStr("b"), VInt(2)>> >>),
      VMap("int", << <<VInt(1), VStr("x")>>, <<VInt(2), VStr("y")>>,
                     <<VInt(3), VStr("z")>> >>),
      VSlice(<<VMap("string", << <<VStr("a"), VInt(1)>>,
                                 <<VStr("b"), VInt(2)>> >>)>>),
      VMap("string", << <<VStr("a"), VInt(1)>> >>) }

PrettyValues ==
    MethodValues \cup PanicValues \cup NestValues \cup CyclicValues
    \cup MapValues \cup {VPtr(0), VNil, VStr("s")}

\* The errors given to Error: errors.New("e"), and an error whose Error
\* panics, as a nil *T in an error does when T has the method by value.
PrettyErrs == { NewError("e"),
                VObj("NilTerror", NoMethod, NoMethod, Panics("nil *T"),
                     VStruct(<<>>)) }

PrettyOptions ==
    { fmtOptions(categoryNone, FALSE, FALSE, d, o) :
        d \in 0..(MaxNest - 1), o \in {outputKeyValue, outputJSON} }

\* The state after newFormatter(opts): the record holds the maxLogDepth the
\* caller wrote.
InitPretty ==
    \E opts \in PrettyOptions :
        /\ loggers = <<newBasicLogger(newFormatter(opts), "w", VerbosityInfo)>>
        /\ heap = EmptyHeap
        /\ last = Call("newFormatter", 0, 1, <<>>, <<VInt(opts.maxLogDepth)>>,
                       <<>>, <<>>)
        /\ threads = <<>>
        /\ registry = emptyRegistry
        /\ writers = <<>>

\* The record of s := f.pretty(value): the text returned, whether the call
\* returned, and the methods the head of prettyWithFlags invoked on value.
PrettyCall(value, ret, returned, calls) ==
    [op |-> "pretty", recv |-> 1, ret |-> ret, builtins |-> <<>>,
     args |-> <<value>>, argArr |-> <<>>, writes |-> <<>>, diag |-> <<>>,
     returned |-> returned, calls |-> calls]

\* s := f.pretty(value) on the formatter of the logger; the range loops
\* over the maps of value yield the entries in any order.
Pretty(value) ==
    /\ loggers' = loggers
    /\ heap' = heap
    /\ UNCHANGED <<threads, registry, writers>>
    /\ IF NeverReturns(loggers[1].fmt, value, 0, {})
       THEN last' = PrettyCall(value, "", FALSE, <<>>)
       ELSE \E ranged \in MapOrders(value) :
                last' = PrettyCall(value, pretty(loggers[1].fmt, ranged), TRUE,
                                   dispatch(Resolve(value)).calls)

\* The key/value list of a log call that carries value between two fields.
Carrying(value) == <<VStr("i"), VInt(7), VStr("k"), value, VStr("j"), VInt(8)>>

NextPretty ==
    \/ \E value \in PrettyValues : Pretty(value)
    \/ \E value \in PrettyValues, site \in Sites :
       \E ranged \in MapOrders(value) :
          Info(1, "m", Carrying(ranged), 0, site)
    \/ \E err \in PrettyErrs, site \in Sites :
          Error(1, err, "m", <<>>, 0, site)

SpecPretty == InitPretty /\ [][NextPretty]_vars

-----------------------------------------------------------------------------
(* The struct case of the value renderer: pretty on structs of any fields, *)
(* after the types Tjsontags..., Tembedstruct and Tembedjsontags of the    *)
(* tests, under the default maxLogDepth and under the limit 1.             *)

\* An unexported field: reflect gives it a PkgPath.
FldUnexported(name, val) == [Fld(name, val) EXCEPT !.pkgPath = "p"]

\* An embedded field, its name the name of its type.
FldEmbedded(name, val) == [Fld(name, val) EXCEPT !.anonymous = TRUE]
FldEmbeddedTag(name, tag, val) ==
    [FldTag(name, tag, val) EXCEPT !.anonymous = TRUE]

Tinnerstruct == VStruct(<<Fld("X", VInt(4))>>)

\* The fields a struct is made of: plain, unexported, tagged "-", tagged
\* omitempty and empty, tagged omitempty and not empty, tagged "-,", an
\* embedded struct, an embedded struct without fields, an embedded struct
\* with a name of its own.
FieldInputs ==
    { Fld("A", VInt(1)),
      FldUnexported("b", VInt(2)),
      FldTag("C", "-", VInt(3)),
      FldTag("D", "d,omitempty", VStr("")),
      FldTag("E", "e,omitempty", VStr("x")),
      FldTag("F", "-,", VInt(6)),
      FldEmbedded("Tinnerstruct", Tinnerstruct),
      FldEmbedded("Tnone", VStruct(<<>>)),
      FldEmbeddedTag("Tinner1", "inner1", Tinnerstruct) }

\* The values of a field tagged omitempty: the empty ones of every kind,
\* values that are not empty, and a struct.
EmptyInputs ==
    { VBool(FALSE), VInt(0), VUint(UintZero), VStr(""), VSlice(<<>>),
      VMap("string", <<>>), VPtr(0), VNil }
FilledInputs ==
    { VBool(TRUE), VInt(1), VUint(Uint(1)), VStr("x"), VSlice(<<VInt(0)>>),
      VMap("string", << <<VStr("k"), VInt(0)>> >>), VPtr(1), VStruct(<<>>) }

\* The tags of such a field: with the option, with the option among
\* others, without it, with a name that only resembles it.
TagInputs == {"z,omitempty", ",omitempty", "z,string,omitempty", "z",
              "omitempty", "z,omitemptyx", ","}

StructInputs ==
    { VStruct(fs) : fs \in UNION {[1..n -> FieldInputs] : n \in 0..MaxFields} }
    \cup { VStruct(<<Fld("A", VInt(1)), FldTag("Z", tag, val)>>)
           : tag \in TagInputs, val \in EmptyInputs \cup FilledInputs }

StructOptions ==
    { fmtOptions(categoryNone, FALSE, FALSE, d, outputKeyValue) : d \in 0..1 }

\* The state after newFormatter(opts), and the struct that will be given
\* to pretty.
InitStruct ==
    \E opts \in StructOptions, value \in StructInputs :
        /\ loggers = <<newBasicLogger(newFormatter(opts), "w", VerbosityInfo)>>
        /\ heap = EmptyHeap
        /\ last = Call("value", 0, 1, <<>>, <<value>>, <<>>, <<>>)
        /\ threads = <<>>
        /\ registry = emptyRegistry
        /\ writers = <<>>

NextStruct == last.op = "value" /\ Pretty(last.args[1])

SpecStruct == InitStruct /\ [][NextStruct]_vars

-----------------------------------------------------------------------------
(* The line assembler alone: loggers with and without persisted fields,    *)
(* and render called on their formatters with any builtin and call-site    *)
(* lists, the empty ones included.                                         *)

\* builtins given to render: none, one pair, two pairs of the same key.
RenderBuiltins ==
    { <<>>,
      <<VStr("level"), VStr("info")>>,
      <<VStr("a"), VInt(1), VStr("a"), VInt(2)>> }

\* args given to render: none, a sane pair, pairs whose texts hold the
\* separators of both formats, a dangling key that is no string.
RenderKV ==
    { <<>>,
      <<VStr("k"), VStr("w")>>,
      <<VStr("a b"), VStr("c, d"), VStr("k"), VSlice(<<VInt(1), VInt(2)>>)>>,
      <<VInt(7)>> }

\* buf := f.render(builtins, args) on the formatter of logger l.
Render(l, builtins, kv) ==
    \E a \in {MakeSlice(heap, kv, Len(kv))} :
    \E b \in {MakeSlice(a.heap, builtins, Len(builtins))} :
    \E r \in {render(loggers[l].fmt, b.heap, b.s, a.s)} :
        /\ loggers' = loggers
        /\ heap' = Collect(r.heap, loggers, threads)
        /\ last' = Call("render", l, r.buf, builtins, kv, ArrOf(r.heap, a.s),
                        <<>>)
        /\ UNCHANGED <<threads, registry, writers>>

InitRender == InitDerive

NextRender ==
    \/ \E l \in 1..Len(loggers), kv \in WithKV :
          Room(MaxLoggers) /\ WithValues(l, kv, 0)
    \/ \E l \in 1..Len(loggers), builtins \in RenderBuiltins, kv \in RenderKV :
          Render(l, builtins, kv)

SpecRender == InitRender /\ [][NextRender]_vars

-----------------------------------------------------------------------------
(* sanitize alone: a key/value list of any entries, with or without spare  *)
(* capacity in its backing array, then sanitize on it and on what sanitize *)
(* returned.                                                               *)

\* A value whose rendering is longer than snipLen.
LongValue == VSlice(<<VInt(1234567), VInt(1234567), VInt(89)>>)

SanitizeEntries == {VStr("k"), VStr("v"), VInt(7), LongValue}

Lists(n) == UNION {[1..k -> SanitizeEntries] : k \in 0..n}

InitSanitize ==
    \E opts \in OptionInputs, es \in Lists(MaxLen), spare \in 0..1 :
    \E a \in {MakeSlice(EmptyHeap, es, Len(es) + spare)} :
        /\ loggers = <<newBasicLogger(newFormatter(opts), "w", VerbosityInfo)>>
        /\ heap = a.heap
        /\ last = Call("make", 0, a.s, <<>>, es, ArrOf(a.heap, a.s), <<>>)
        /\ threads = <<>>
        /\ registry = emptyRegistry
        /\ writers = <<>>

\* kvList = f.sanitize(kvList), on the list the last call returned.
Sanitize ==
    \E r \in {sanitize(loggers[1].fmt, heap, last.ret)} :
        /\ loggers' = loggers
        /\ heap' = r.heap
        /\ last' = Call("sanitize", 1, r.kvList, <<>>, Elems(heap, last.ret),
                        ArrOf(r.heap, last.ret), <<>>)
        /\ UNCHANGED <<threads, registry, writers>>

NextSanitize == Sanitize

SpecSanitize == InitSanitize /\ [][NextSanitize]_vars

-----------------------------------------------------------------------------
(* Concurrent derivation: goroutines that each call WithName or WithValues *)
(* on the same parent logger, logger 1, and run statement by statement.    *)
(* The parent is the root logger or a logger derived from it by WithValues *)
(* calls, so that its persisted list may have spare capacity.  last stays *)
(* the record of the parent's construction.                                *)

\* The WithValues calls that made the parent.
ParentInputs ==
    { <<>>,
      << <<VStr("k"), VStr("v")>> >>,
      << <<VStr("k"), VStr("v")>>, <<VStr("d")>> >> }

ConcOptions == {fmtOptions(categoryNone, FALSE, FALSE, 0, outputKeyValue)}

\* The calls of the goroutines.
ThreadCalls ==
    { [op |-> "WithName", name |-> "a", args |-> <<>>],
      [op |-> "WithValues", name |-> "", args |-> <<VStr("e")>>],
      [op |-> "WithValues", name |-> "", args |-> <<VInt(7)>>] }

\* The formatter and the heap after WithValues(kv) on formatter p.f.
Derived(p, kv) ==
    LET keep(r) == [r EXCEPT !.heap =
                       [i \in 1..HeapSize |->
                           IF i = r.f.values.arr THEN r.heap[i] ELSE <<>>]]
        added(a) == The({ keep(r) : r \in {AddValues(p.f, a.heap, a.s)} })
    IN  The({ added(a) : a \in {MakeSlice(p.heap, kv, Len(kv))} })

RECURSIVE DerivedAll(_, _)
DerivedAll(p, kvs) ==
    IF kvs = <<>> THEN p
    ELSE The({ DerivedAll(q, Tail(kvs)) : q \in {Derived(p, Head(kvs))} })

Idle == [pc |-> "idle", op |-> "", name |-> "", args |-> <<>>,
         kv |-> NilSlice, c |-> 0]

InitConc ==
    \E opts \in ConcOptions, kvs \in ParentInputs :
    \E p \in {DerivedAll([heap |-> EmptyHeap, f |-> newFormatter(opts)], kvs)} :
        /\ loggers = <<newBasicLogger(p.f, "w", VerbosityInfo)>>
        /\ heap = p.heap
        /\ last = Call("newBasicLogger", 0, 1, <<>>, <<>>, <<>>, <<>>)
        /\ threads = [t \in 1..MaxThreads |-> Idle]
        /\ registry = emptyRegistry
        /\ writers = <<>>

\* go l.WithName(name) or go l.WithValues(args...): the goroutine has its
\* arguments, keysAndValues in a slice of its own.
Go(t, call) ==
    /\ threads[t].pc = "idle"
    /\ \E a \in {MakeSlice(heap, call.args, Len(call.args))} :
          /\ heap' = a.heap
          /\ threads' = [threads EXCEPT ![t] =
                            [pc |-> "clone", op |-> call.op, name |-> call.name,
                             args |-> call.args, kv |-> a.s, c |-> 0]]
    /\ UNCHANGED <<loggers, last, registry, writers>>

\* c := l.clone()
CloneStep(t) ==
    /\ threads[t].pc = "clone"
    /\ \E c \in {clone(loggers, 1)} :
          /\ loggers' = c.loggers
          /\ threads' = [threads EXCEPT
                            ![t].c = c.addr,
                            ![t].pc = IF threads[t].op = "WithName"
                                      THEN "AddName" ELSE "append"]
    /\ UNCHANGED <<heap, last, registry, writers>>

\* c.fmt.AddName(name); return c
AddNameStep(t) ==
    /\ threads[t].pc = "AddName"
    /\ loggers' = [loggers EXCEPT ![threads[t].c].fmt = AddName(@, threads[t].name)]
    /\ threads' = [threads EXCEPT ![t].pc = "done"]
    /\ UNCHANGED <<heap, last, registry, writers>>

\* The first statement of c.fmt.AddValues(keysAndValues).
AppendStep(t) ==
    /\ threads[t].pc = "append"
    /\ \E r \in {appendValues(loggers[threads[t].c].fmt, heap, threads[t].kv)} :
          /\ loggers' = [loggers EXCEPT ![threads[t].c].fmt = r.f]
          /\ heap' = r.heap
    /\ threads' = [threads EXCEPT ![t].pc = "flatten"]
    /\ UNCHANGED <<last, registry, writers>>

\* The rest of c.fmt.AddValues(keysAndValues); return c
FlattenStep(t) ==
    /\ threads[t].pc = "flatten"
    /\ \E r \in {preRender(loggers[threads[t].c].fmt, heap)} :
       \E ls \in {[loggers EXCEPT ![threads[t].c].fmt = r.f]} :
       \E ts \in {[threads EXCEPT ![t].pc = "done", ![t].kv = NilSlice]} :
          /\ loggers' = ls
          /\ threads' = ts
          /\ heap' = Collect(r.heap, ls, ts)
          /\ UNCHANGED <<last, registry, writers>>

NextConc ==
    \/ \E t \in 1..MaxThreads, call \in ThreadCalls : Go(t, call)
    \/ \E t \in 1..MaxThreads : CloneStep(t)
    \/ \E t \in 1..MaxThreads : AddNameStep(t)
    \/ \E t \in 1..MaxThreads : AppendStep(t)
    \/ \E t \in 1..MaxThreads : FlattenStep(t)

SpecConc == InitConc /\ [][NextConc]_vars

-----------------------------------------------------------------------------
(* The registry: goroutines that each call NewLogger, statement by        *)
(* statement.  A goroutine keeps the results of the calls it has finished  *)
(* in rets.                                                                *)

\* How many NewLogger calls one goroutine makes.
MaxCalls == 2

RegistryNames == {"a", "b"}

\* registry.Lock() as it would be if it did not wait for the lock.
LockRegistryUnguarded(t) ==
    /\ threads[t].pc = "Lock"
    /\ registry' = [registry EXCEPT !.mu = t]
    /\ threads' = [threads EXCEPT ![t].pc = "lookup"]
    /\ UNCHANGED <<loggers, heap, last, writers>>

RegistryIdle == [pc |-> "idle", name |-> "", logger |-> 0, rets |-> <<>>]

InitRegistry ==
    /\ loggers = <<>>
    /\ heap = EmptyHeap
    /\ last = Call("registry", 0, 0, <<>>, <<>>, <<>>, <<>>)
    /\ threads = [t \in 1..MaxThreads |-> RegistryIdle]
    /\ registry = emptyRegistry
    /\ writers = <<>>

\* go NewLogger(name)
GoNewLogger(t, name) ==
    /\ threads[t].pc = "idle"
    /\ Len(threads[t].rets) < MaxCalls
    /\ threads' = [threads EXCEPT ![t].pc = "Lock", ![t].name = name,
                                  ![t].logger = 0]
    /\ UNCHANGED <<loggers, heap, last, registry, writers>>

\* registry.Lock(); defer registry.Unlock()
LockRegistry(t) ==
    /\ threads[t].pc = "Lock"
    /\ registry.mu = 0
    /\ registry' = [registry EXCEPT !.mu = t]
    /\ threads' = [threads EXCEPT ![t].pc = "lookup"]
    /\ UNCHANGED <<loggers, heap, last, writers>>

\* logger, ok := registry.loggers[name]; if ok { return logger }
LookupRegistry(t) ==
    /\ threads[t].pc = "lookup"
    /\ threads' = IF threads[t].name \in DOMAIN registry.loggers
                  THEN [threads EXCEPT
                           ![t].logger = registry.loggers[threads[t].name],
                           ![t].pc = "return"]
                  ELSE [threads EXCEPT ![t].pc = "newBasicLogger"]
    /\ UNCHANGED <<loggers, heap, last, registry, writers>>

\* logger = newBasicLogger(newFormatter(fmtOptions{logTimestamp: true,
\* logCaller: categoryAll}), os.Stderr, VerbosityAll)
CreateLogger(t) ==
    /\ threads[t].pc = "newBasicLogger"
    /\ loggers' = Append(loggers,
                         newBasicLogger(
                             newFormatter(fmtOptions(categoryAll, FALSE, TRUE,
                                                     0, outputKeyValue)),
                             "os.Stderr", VerbosityAll))
    /\ threads' = [threads EXCEPT ![t].logger = Len(loggers) + 1,
                                  ![t].pc = "store"]
    /\ UNCHANGED <<heap, last, registry, writers>>

\* registry.loggers[name] = logger
StoreLogger(t) ==
    /\ threads[t].pc = "store"
    /\ registry' = [registry EXCEPT !.loggers =
                      [n \in DOMAIN @ \cup {threads[t].name} |->
                          IF n = threads[t].name THEN threads[t].logger
                          ELSE @[n]]]
    /\ threads' = [threads EXCEPT ![t].pc = "return"]
    /\ UNCHANGED <<loggers, heap, last, writers>>

\* return logger, and the deferred registry.Unlock() with it.  Unlock of a
\* mutex takes no notice of who locked it.
ReturnLogger(t) ==
    /\ threads[t].pc = "return"
    /\ registry' = [registry EXCEPT !.mu = 0]
    /\ threads' = [threads EXCEPT
                      ![t].pc = "idle",
                      ![t].rets = Append(@, [name |-> threads[t].name,
                                             logger |-> threads[t].logger])]
    /\ UNCHANGED <<loggers, heap, last, writers>>

NextRegistry ==
    \/ \E t \in 1..MaxThreads, name \in RegistryNames : GoNewLogger(t, name)
    \/ \E t \in 1..MaxThreads : LockRegistry(t)
    \/ \E t \in 1..MaxThreads : LookupRegistry(t)
    \/ \E t \in 1..MaxThreads : CreateLogger(t)
    \/ \E t \in 1..MaxThreads : StoreLogger(t)
    \/ \E t \in 1..MaxThreads : ReturnLogger(t)

SpecRegistry == InitRegistry /\ [][NextRegistry]_vars

-----------------------------------------------------------------------------
(* Locked writers: io.Writer objects, some of them made by Lock, and       *)
(* goroutines that each call Write on a lockWriter, statement by           *)
(* statement.  A writer that is no lockWriter records in inside which      *)
(* goroutines are within its Write, each with the lockWriter it came       *)
(* through.  A Write returns nil or an error, and a goroutine calls Write   *)
(* any number of times.                                                    *)

\* How many io.Writer objects one behaviour has.
MaxWriters == 3

\* ls.Unlock(); return n, err as it would be if an error made Write return
\* before the Unlock.
UnlockWriterOnSuccess(t) ==
    /\ threads[t].pc = "Unlock"
    /\ writers' = IF threads[t].err THEN writers
                  ELSE [writers EXCEPT ![threads[t].ls].mu = 0]
    /\ threads' = [threads EXCEPT ![t].pc = "idle"]
    /\ UNCHANGED <<loggers, heap, last, registry>>

\* A writer of the caller: sink names what its Write may return.
rawWriter(sink) == [kind |-> "Writer", sink |-> sink, inside |-> {}]

\* &lockWriter{w: w}: the embedded sync.Mutex is mu, the goroutine holding
\* it or 0.
lockWriter(w) == [kind |-> "lockWriter", mu |-> 0, w |-> w]

\* A goroutine: where it is, the lockWriter of its latest Write, the err of
\* the underlying Write of it.
WriterIdle == [pc |-> "idle", ls |-> 0, err |-> FALSE]

InitWriter ==
    \E sink \in {"w", "flaky"} :
        /\ loggers = <<>>
        /\ heap = EmptyHeap
        /\ last = Call("Writer", 0, 1, <<>>, <<>>, <<>>, <<>>)
        /\ threads = [t \in 1..MaxThreads |-> WriterIdle]
        /\ registry = emptyRegistry
        /\ writers = <<rawWriter(sink)>>

\* Lock(w), for a writer w that is a *lockWriter.
LockLocked(w) ==
    /\ writers[w].kind = "lockWriter"
    /\ last' = Call("Lock", w, w, <<>>, <<>>, <<>>, <<>>)
    /\ UNCHANGED <<loggers, heap, threads, registry, writers>>

\* Lock(w), for a writer w of any other type.
LockRaw(w) ==
    /\ writers[w].kind # "lockWriter"
    /\ Len(writers) < MaxWriters
    /\ writers' = Append(writers, lockWriter(w))
    /\ last' = Call("Lock", w, Len(writers) + 1, <<>>, <<>>, <<>>, <<>>)
    /\ UNCHANGED <<loggers, heap, threads, registry>>

\* go ls.Write(bs)
GoWrite(t, ls) ==
    /\ threads[t].pc = "idle"
    /\ writers[ls].kind = "lockWriter"
    /\ threads' = [threads EXCEPT ![t].pc = "Lock", ![t].ls = ls,
                                  ![t].err = FALSE]
    /\ UNCHANGED <<loggers, heap, last, registry, writers>>

\* ls.Lock()
LockWriter(t) ==
    /\ threads[t].pc = "Lock"
    /\ writers[threads[t].ls].mu = 0
    /\ writers' = [writers EXCEPT ![threads[t].ls].mu = t]
    /\ threads' = [threads EXCEPT ![t].pc = "Write"]
    /\ UNCHANGED <<loggers, heap, last, registry>>

\* n, err := ls.w.Write(bs): the call, and then the return of it.
EnterWrite(t) ==
    /\ threads[t].pc = "Write"
    /\ writers' = [writers EXCEPT ![writers[threads[t].ls].w].inside =
                                     @ \cup {<<t, threads[t].ls>>}]
    /\ threads' = [threads EXCEPT ![t].pc = "inWrite"]
    /\ UNCHANGED <<loggers, heap, last, registry>>

LeaveWrite(t) ==
    /\ threads[t].pc = "inWrite"
    /\ \E err \in WriteErrors(writers[writers[threads[t].ls].w].sink) :
          threads' = [threads EXCEPT ![t].pc = "Unlock", ![t].err = err]
    /\ writers' = [writers EXCEPT ![writers[threads[t].ls].w].inside =
                                     @ \ {<<t, threads[t].ls>>}]
    /\ UNCHANGED <<loggers, heap, last, registry>>

\* ls.Unlock(); return n, err
UnlockWriter(t) ==
    /\ threads[t].pc = "Unlock"
    /\ writers' = [writers EXCEPT ![threads[t].ls].mu = 0]
    /\ threads' = [threads EXCEPT ![t].pc = "idle"]
    /\ UNCHANGED <<loggers, heap, last, registry>>

\* The statements of goroutine t within Write, once it has the mutex.
WriteStep(t) == EnterWrite(t) \/ LeaveWrite(t) \/ UnlockWriter(t)

NextWriter ==
    \/ \E w \in 1..Len(writers) : LockLocked(w)
    \/ \E w \in 1..Len(writers) : LockRaw(w)
    \/ \E t \in 1..MaxThreads, ls \in 1..Len(writers) : GoWrite(t, ls)
    \/ \E t \in 1..MaxThreads : LockWriter(t)
    \/ \E t \in 1..MaxThreads : EnterWrite(t)
    \/ \E t \in 1..MaxThreads : LeaveWrite(t)
    \/ \E t \in 1..MaxThreads : UnlockWriter(t)

\* A goroutine that can run a statement of Write is scheduled in the end,
\* and sync.Mutex hands the mutex to a goroutine that has waited for it
\* while others took it again and again (its starvation mode).
SpecWriter ==
    /\ InitWriter
    /\ [][NextWriter]_vars
    /\ \A t \in 1..MaxThreads :
          WF_vars(WriteStep(t)) /\ SF_vars(LockWriter(t))

-----------------------------------------------------------------------------
(* Verbosity: a root logger of verbosity VerbosityInfo, then derivations,  *)
(* setVerbosity and Enabled calls on any of the loggers, and Debug and     *)
(* Info calls.                                                             *)

\* l.verbosity.set(v) as it would be if the loggers derived from one
\* another pointed at one Level.
setVerbosityShared(l, v) ==
    /\ loggers' = [m \in 1..Len(loggers) |->
                      [loggers[m] EXCEPT !.verbosity = v]]
    /\ heap' = heap
    /\ last' = Call("setVerbosity", l, 0, <<>>, <<VInt(v)>>, <<>>, <<>>)
    /\ UNCHANGED <<threads, registry, writers>>

\* The level given to setVerbosity: not the root's first one.
SetLevels == {VerbosityNone}

VerbosityOptions == {fmtOptions(categoryNone, FALSE, FALSE, 0, outputKeyValue)}

InitVerbosity ==
    \E opts \in VerbosityOptions :
        /\ loggers = <<newBasicLogger(newFormatter(opts), "w", VerbosityInfo)>>
        /\ heap = EmptyHeap
        /\ last = Call("newBasicLogger", 0, 1, <<>>, <<>>, <<>>, <<>>)
        /\ threads = <<>>
        /\ registry = emptyRegistry
        /\ writers = <<>>

\* l.verbosity.set(v): an atomic store to the logger's own field.
setVerbosity(l, v) ==
    /\ loggers' = [loggers EXCEPT ![l].verbosity = v]
    /\ heap' = heap
    /\ last' = Call("setVerbosity", l, 0, <<>>, <<VInt(v)>>, <<>>, <<>>)
    /\ UNCHANGED <<threads, registry, writers>>

\* return l.verbosity.get() > VerbosityNone
Enabled(l) ==
    /\ last' = Call("Enabled", l, loggers[l].verbosity > VerbosityNone,
                    <<>>, <<>>, <<>>, <<>>)
    /\ UNCHANGED <<loggers, heap, threads, registry, writers>>

NextVerbosity ==
    \/ \E l \in 1..Len(loggers), name \in {"a"} :
          Room(1 + MaxDerived) /\ WithName(l, name)
    \/ \E l \in 1..Len(loggers), kv \in {<<VStr("k"), VStr("v")>>} :
          Room(1 + MaxDerived) /\ WithValues(l, kv, 0)
    \/ \E l \in 1..Len(loggers), level \in VLevels :
          Room(1 + MaxDerived) /\ V(l, level)
    \/ \E l \in 1..Len(loggers), v \in SetLevels : setVerbosity(l, v)
    \/ \E l \in 1..Len(loggers) : Enabled(l)
    \/ \E l \in 1..Len(loggers), msg \in Msgs, site \in Sites :
          Debug(l, msg, <<>>, 0, site)
    \/ \E l \in 1..Len(loggers), msg \in Msgs, site \in Sites :
          Info(l, msg, <<>>, 0, site)

SpecVerbosity == InitVerbosity /\ [][NextVerbosity]_vars

-----------------------------------------------------------------------------
(* Hostile text: loggers named and given persisted pairs with text that   *)
(* has quotes, backslashes, newlines, tabs and whole forged pairs in it,   *)
(* and Info calls with such messages, keys and values.                     *)

\* Text that would end its token early, break the line or add a pair,
\* were it written as it is.
HostileNames == { "n\"\n", "v\" \"k\"=\"w" }

\* Persisted pairs: a hostile key with a hostile value, a dangling hostile
\* key.
HostilePairs ==
    { <<VStr("v\" \"k\"=\"w"), VStr("c\\")>>,
      <<VStr("\t\\\"")>> }

\* Call-site pairs.
HostileArgs ==
    { <<VStr("x\ny\n"), VStr("v\",\"k\":\"w")>>,
      <<VStr("\t\\\"")>> }

HostileMsgs == { "x\ny\n", "v\" \"k\"=\"w\\" }

InitEscape ==
    \E opts \in OptionInputs :
        /\ loggers = <<newBasicLogger(newFormatter(opts), "w", VerbosityInfo)>>
        /\ heap = EmptyHeap
        /\ last = Call("newBasicLogger", 0, 1, <<>>, <<>>, <<>>, <<>>)
        /\ threads = <<>>
        /\ registry = emptyRegistry
        /\ writers = <<>>

NextEscape ==
    \/ \E l \in 1..Len(loggers), name \in HostileNames :
          Room(1 + MaxDerived) /\ WithName(l, name)
    \/ \E l \in 1..Len(loggers), kv \in HostilePairs :
          Room(1 + MaxDerived) /\ WithValues(l, kv, 0)
    \/ \E l \in 1..Len(loggers), msg \in HostileMsgs, kv \in HostileArgs,
           site \in Sites :
          Info(l, msg, kv, 0, site)

SpecEscape == InitEscape /\ [][NextEscape]_vars

-----------------------------------------------------------------------------
(* Reading a rendered line back: its top-level pairs.                      *)

\* The positions of the quotes of s that open or close a quoted string: the
\* quotes that no odd run of backslashes precedes.
Quotes(s) ==
    {j \in 1..Len(s) :
        /\ CharAt(s, j) = "\""
        /\ \/ j = 1
           \/ CharAt(s, j - 1) # "\\"
           \/ \E k \in 0..(j - 2) :
                 /\ k = 0 \/ CharAt(s, k) # "\\"
                 /\ \A m \in (k + 1)..(j - 1) : CharAt(s, m) = "\\"
                 /\ (j - 1 - k) % 2 = 0}

\* The elements of the set P of numbers, in ascending order.
Ascending(P) ==
    [j \in 1..Cardinality(P) |->
        CHOOSE p \in P : Cardinality({q \in P : q < p}) = j - 1]

\* The positions in s of the characters sep that stand outside every quoted
\* string and outside every pair of brackets, in ascending order.
TopSeps(s, sep) ==
    LET bare(qs) == {j \in 1..Len(s) :
                        Cardinality({q \in qs : q <= j}) % 2 = 0}
        level(bs, j) ==
            Cardinality({k \in bs : k < j /\ CharAt(s, k) \in {"{", "["}})
            - Cardinality({k \in bs : k < j /\ CharAt(s, k) \in {"}", "]"}})
        top(bs) == {j \in bs : CharAt(s, j) = sep /\ level(bs, j) = 0}
    IN  Ascending(The({ top(bs) : bs \in {The({ bare(qs) : qs \in {Quotes(s)} })} }))

\* The pieces of s between the positions seps.
Pieces(s, seps) ==
    [j \in 1..(Len(seps) + 1) |->
        SubSeq(s, (IF j = 1 THEN 1 ELSE seps[j - 1] + 1),
                  (IF j > Len(seps) THEN Len(s) ELSE seps[j] - 1))]

\* A line without its final byte and, in JSON mode, without its first byte
\* and the byte before the final one.
Inner(f, line) ==
    IF f.opts.outputFormat = outputJSON
    THEN (IF Len(line) > 3 THEN SubSeq(line, 2, Len(line) - 2) ELSE "")
    ELSE (IF Len(line) > 1 THEN SubSeq(line, 1, Len(line) - 1) ELSE "")

\* The text of the pair (k, v) of a group: the key quoted (a key that is no
\* string by its marker), the mode's key/value sign, the value rendered.
PairText(f, k, v, escapeKeys) ==
    LET key == IF IsString(k) THEN k.s ELSE nonStringKey(f, k)
    IN  (IF escapeKeys THEN prettyString(key) ELSE "\"" \o key \o "\"")
        \o (IF f.opts.outputFormat = outputJSON THEN ":" ELSE "=")
        \o pretty(f, v)

\* The texts of the pairs of the list es, in the order of es; the last key
\* of a list of odd length is paired with the sentinel.
PairTexts(f, es, escapeKeys) ==
    [j \in 1..((Len(es) + 1) \div 2) |->
        PairText(f, es[2 * j - 1],
                 IF 2 * j <= Len(es) THEN es[2 * j] ELSE VStr(noValue),
                 escapeKeys)]

\* The persisted list of logger l.
Persisted(l) == Elems(heap, loggers[l].fmt.values)

\* C1: the pairs a rendered line holds at top level are the pairs of the
\* builtin list, then the pairs of the logger's persisted list, then the
\* pairs of the call-site list, each group in the order of its list and
\* with every pair of a repeated key present.
C1_GroupOrder ==
    last.op = "render" =>
        \A f \in {loggers[last.recv].fmt} :
        \A body \in {Inner(f, last.ret)} :
        \A want \in {PairTexts(f, last.builtins, FALSE)
                     \o PairTexts(f, Persisted(last.recv), TRUE)
                     \o PairTexts(f, last.args, TRUE)} :
            IF want = <<>> THEN body = ""
            ELSE Pieces(body, TopSeps(body, Separator(f))) = want

\* C1 witness: a line rendered from three groups that are all non-empty,
\* the builtin group repeating a key and the call-site group repeating the
\* key of a persisted pair.
C1_Witness ==
    /\ last.op = "render"
    /\ last.builtins = <<VStr("a"), VInt(1), VStr("a"), VInt(2)>>
    /\ Persisted(last.recv) = <<VStr("k"), VStr("v")>>
    /\ last.args = <<VStr("k"), VStr("w")>>
    /\ last.ret = "\"a\"=1 \"a\"=2 \"k\"=\"v\" \"k\"=\"w\"\n"

\* The number of pairs a list of n entries makes.
NPairs(n) == (n + 1) \div 2

\* C2: on a rendered line the separator of the mode stands at top level
\* exactly once between two consecutive pairs: there are as many separators
\* as pairs less one (none when no pair is written), none is the first or
\* the last byte of the text inside the wrapper, and no two are adjacent.
C2_SeparatorOnce ==
    last.op = "render" =>
        \A f \in {loggers[last.recv].fmt} :
        \A body \in {Inner(f, last.ret)} :
        \A seps \in {TopSeps(body, Separator(f))} :
        \A n \in {NPairs(Len(last.builtins)) + NPairs(Len(Persisted(last.recv)))
                  + NPairs(Len(last.args))} :
            /\ Len(seps) = IF n = 0 THEN 0 ELSE n - 1
            /\ \A j \in 1..Len(seps) :
                  /\ seps[j] # 1
                  /\ seps[j] # Len(body)
                  /\ j > 1 => seps[j] # seps[j - 1] + 1

\* C2 witness: a line rendered with no builtin field, a persisted pair and
\* a call-site pair, in JSON mode.
C2_Witness ==
    /\ last.op = "render"
    /\ last.builtins = <<>>
    /\ Persisted(last.recv) # <<>>
    /\ last.args = <<VStr("k"), VStr("w")>>
    /\ loggers[last.recv].fmt.opts.outputFormat = outputJSON

\* C3: a rendered line ends with a newline that no newline precedes; in
\* JSON mode the text before it starts with "{" and ends with "}", in loose
\* mode it is empty or starts with the quote of its first key; three empty
\* groups give "{}" and a newline in JSON mode, a lone newline in loose mode.
C3_LineShape ==
    last.op = "render" =>
        \A f \in {loggers[last.recv].fmt} :
        \A line \in {last.ret} :
        \A text \in {SubSeq(line, 1, Len(line) - 1)} :
            /\ HasSuffix(line, "\n")
            /\ ~HasSuffix(text, "\n")
            /\ IF f.opts.outputFormat = outputJSON
               THEN /\ Len(text) >= 2
                    /\ CharAt(text, 1) = "{"
                    /\ CharAt(text, Len(text)) = "}"
               ELSE text = "" \/ CharAt(text, 1) = "\""
            /\ (/\ last.builtins = <<>>
                /\ Persisted(last.recv) = <<>>
                /\ last.args = <<>>)
               => line = IF f.opts.outputFormat = outputJSON THEN "{}\n"
                         ELSE "\n"

\* C3 witness: the line of three empty groups in JSON mode.
C3_Witness ==
    /\ last.op = "render"
    /\ last.builtins = <<>>
    /\ Persisted(last.recv) = <<>>
    /\ last.args = <<>>
    /\ last.ret = "{}\n"

\* The indices (1-based) at which a list of n entries holds its keys.
KeyIndices(n) == {i \in 1..n : i % 2 = 1}

\* A list of even length with a string for every key.
Sane(es) ==
    /\ Len(es) % 2 = 0
    /\ \A i \in KeyIndices(Len(es)) : IsString(es[i])

\* The list the last call returned.
Returned == Elems(heap, last.ret)

\* C4: sanitize returns a list equal to the list it is given when that list
\* has even length and a string for every key; and sanitize applied to a
\* list that sanitize returned returns that list again.
C4_SanitizeIdentity ==
    last.op = "sanitize" =>
        /\ Sane(last.args) => Returned = last.args
        /\ \A r \in {sanitize(loggers[1].fmt, heap, last.ret)} :
              Elems(r.heap, r.kvList) = Returned

\* C4 witness: sanitize has returned the sane pair it was given, the value
\* of the pair no string.
C4_Witness ==
    /\ last.op = "sanitize"
    /\ last.args = <<VStr("k"), VInt(7)>>
    /\ Returned = last.args

\* C5: sanitize returns a list of odd length with one more entry, the
\* sentinel "<no-value>", at its end, and a list of even length with the
\* length it had; the list it returns has even length.
C5_DanglingKey ==
    last.op = "sanitize" =>
        /\ Len(Returned) % 2 = 0
        /\ IF Len(last.args) % 2 = 1
           THEN /\ Len(Returned) = Len(last.args) + 1
                /\ Returned[Len(Returned)] = VStr(noValue)
                /\ \A i \in 1..Len(last.args) :
                      i % 2 = 0 => Returned[i] = last.args[i]
           ELSE Len(Returned) = Len(last.args)

\* C5 witness: sanitize has been given the single key "k" and has returned
\* it paired with the sentinel.
C5_Witness ==
    /\ last.op = "sanitize"
    /\ last.args = <<VStr("k")>>
    /\ Returned = <<VStr("k"), VStr("<no-value>")>>

\* The first n bytes of s, all of s when it is shorter.
Take(s, n) == IF Len(s) > n THEN SubSeq(s, 1, n) ELSE s

\* C6: sanitize replaces every key that is no string by the string
\* "<non-string-key: S>", S the first 16 bytes of the key's rendering, and
\* returns every other entry of the list it was given unchanged and in its
\* place; every key of the list it returns is a string.
C6_NonStringKey ==
    last.op = "sanitize" =>
        /\ \A i \in 1..Len(last.args) :
              Returned[i] =
                  IF i % 2 = 1 /\ ~IsString(last.args[i])
                  THEN VStr("<non-string-key: "
                            \o Take(pretty(loggers[1].fmt, last.args[i]), 16)
                            \o ">")
                  ELSE last.args[i]
        /\ \A i \in KeyIndices(Len(Returned)) : IsString(Returned[i])

\* C6 witness: sanitize has been given a key whose rendering is longer than
\* 16 bytes, followed by a value that is no string.
C6_Witness ==
    /\ last.op = "sanitize"
    /\ last.args = <<LongValue, VInt(7)>>
    /\ Returned = <<VStr("<non-string-key: [1234567,1234567>"), VInt(7)>>

\* The line an Info call on logger l of the store ls, over the heap h,
\* hands to the sink.
InfoLine(ls, h, l) ==
    LET line(a) ==
            The({ render(ls[l].fmt, b.heap, b.s, a.s).buf
                  : b \in {MakeSlice(a.heap,
                                     base(ls[l].fmt, "info")
                                     \o <<VStr("msg"), VStr("m")>>,
                                     baseCap)} })
    IN  The({ line(a) : a \in {MakeSlice(h, <<VStr("k"), VStr("w")>>, 2)} })

\* C7: a WithName, WithValues or V call leaves every logger that existed
\* before it, its receiver included, with the name path, persisted list,
\* persisted text, options, V level, verbosity and sink it had, and with
\* the line a log call on it produces.
C7_ParentUnchanged ==
    [][ last'.op \in {"WithName", "WithValues", "V"} =>
            \A l \in 1..Len(loggers) :
                /\ Len(loggers') >= l
                /\ View(loggers', heap', l) = View(loggers, heap, l)
                /\ InfoLine(loggers', heap', l) = InfoLine(loggers, heap, l)
      ]_vars

\* C7 witness: the root logger after a WithName call and then a WithValues
\* call on it, with the name path "root" and no persisted field.
C7_Witness ==
    /\ Len(loggers) = 3
    /\ loggers[2].fmt.prefix = "root/a"
    /\ last.op = "WithValues" /\ last.recv = 1 /\ last.ret = 3
    /\ Persisted(3) = <<VStr("k"), VStr("v")>>
    /\ View(loggers, heap, 1).prefix = "root"
    /\ View(loggers, heap, 1).values = <<>>
    /\ View(loggers, heap, 1).valuesStr = ""

\* The logger the call of goroutine th on logger 1 returns when no other
\* call runs between its statements.
Alone(th) ==
    IF th.op = "WithName"
    THEN [View(loggers, heap, 1) EXCEPT
             !.prefix = AddName(loggers[1].fmt, th.name).prefix]
    ELSE LET made(a) ==
                 The({ [View(loggers, heap, 1) EXCEPT
                           !.values = Elems(r.heap, r.f.values),
                           !.valuesStr = r.f.valuesStr]
                       : r \in {AddValues(loggers[1].fmt, a.heap, a.s)} })
         IN  The({ made(a) : a \in {MakeSlice(heap, th.args, Len(th.args))} })

\* C8: in every interleaving of the statements of concurrent WithName and
\* WithValues calls on one parent, the logger a finished call has returned
\* is, and stays, the logger the call returns when it runs alone: the
\* parent's state with the call's own name element or pairs.
C8_DerivedAlone ==
    \A t \in 1..Len(threads) :
        threads[t].pc = "done" =>
            View(loggers, heap, threads[t].c) = Alone(threads[t])

\* C8 witness: two WithValues calls with different lists have both
\* returned, their parent holding persisted fields in an array with spare
\* capacity.
C8_Witness ==
    /\ Len(threads) >= 2
    /\ threads[1].pc = "done" /\ threads[1].args = <<VStr("e")>>
    /\ threads[2].pc = "done" /\ threads[2].args = <<VInt(7)>>
    /\ loggers[1].fmt.values.len = 3
    /\ loggers[1].fmt.values.cap = 4

\* C9: the logger newBasicLogger makes from a new formatter has the name
\* path "root"; the logger WithName(s) returns has its receiver's name path,
\* then "/", then s (s alone for an empty path), and its receiver's
\* persisted list, persisted text and options.
C9_NamePath ==
    /\ last.op = "newBasicLogger" => loggers[last.ret].fmt.prefix = "root"
    /\ last.op = "WithName" =>
          \A p \in {View(loggers, heap, last.recv)} :
          \A c \in {View(loggers, heap, last.ret)} :
              /\ c.prefix = IF p.prefix = "" THEN last.args[1].s
                            ELSE p.prefix \o "/" \o last.args[1].s
              /\ c.values = p.values
              /\ c.valuesStr = p.valuesStr
              /\ c.opts = p.opts

\* C9 witness: WithName("b") on the logger WithName("a") on the root logger
\* returned has returned a logger of name path "root/a/b".
C9_Witness ==
    /\ last.op = "WithName"
    /\ last.args = <<VStr("b")>>
    /\ loggers[last.recv].fmt.prefix = "root/a"
    /\ loggers[last.ret].fmt.prefix = "root/a/b"

\* C10: every Error call hands one line to the sink, whatever the
\* verbosity of its logger.
C10_ErrorAlwaysWrites ==
    last.op = "Error" => Len(last.writes) = 1

\* The Error calls the code lets write: those on a logger of verbosity
\* VerbosityError or more.
C10_ErrorGated ==
    last.op = "Error" =>
        (Len(last.writes) = 1
         <=> loggers[last.recv].verbosity >= VerbosityError)

\* C10 witness: an Error call on a logger of verbosity VerbosityNone has
\* returned and the sink has received nothing.
C10_Witness ==
    /\ last.op = "Error"
    /\ loggers[last.recv].verbosity = VerbosityNone
    /\ last.writes = <<>>

\* The line a log call hands to the sink is the line of its builtin fields,
\* its logger's persisted fields and its call-site fields.
WholeLine(f, line, builtins, persisted, args) ==
    /\ HasSuffix(line, "\n")
    /\ \A body \in {Inner(f, line)} :
          Pieces(body, TopSeps(body, Separator(f)))
              = PairTexts(f, builtins, FALSE) \o PairTexts(f, persisted, TRUE)
                \o PairTexts(f, args, TRUE)

\* The threshold of the verbosity at which a call of Info or Warning writes.
Threshold(op) == IF op = "Info" THEN VerbosityInfo ELSE VerbosityWarning

\* C11: an Info or Warning call on a logger whose verbosity is at least the
\* call's threshold hands the sink one buffer, the whole line with the
\* call's message; a call below its threshold hands the sink nothing and
\* renders nothing; and a Warning call that follows an Info call that wrote,
\* on the same logger, writes too.
C11_ThresholdGate ==
    /\ [](last.op \in {"Info", "Warning"} =>
            IF loggers[last.recv].verbosity >= Threshold(last.op)
            THEN /\ Len(last.writes) = 1
                 /\ Len(last.builtins) >= 6
                 /\ SubSeq(last.builtins, Len(last.builtins) - 1,
                           Len(last.builtins)) = <<VStr("msg"), VStr("m")>>
                 /\ WholeLine(loggers[last.recv].fmt, last.writes[1],
                              last.builtins, Persisted(last.recv), last.args)
            ELSE last.writes = <<>> /\ last.builtins = <<>>)
    /\ [][ (/\ last.op = "Info" /\ last.writes # <<>>
            /\ last'.op = "Warning" /\ last'.recv = last.recv)
           => last'.writes # <<>> ]_vars

\* C11 witness: a Warning call on a logger whose verbosity is the threshold
\* of Warning, below the threshold of Info, has written its line.
C11_Witness ==
    /\ last.op = "Warning"
    /\ loggers[last.recv].verbosity = VerbosityWarning
    /\ Len(last.writes) = 1

\* C12: no Debug call on a logger whose verbosity is below VerbosityInfo is
\* written, whatever V levels made the logger.
C12_DebugGate ==
    (last.op = "Debug" /\ loggers[last.recv].verbosity < VerbosityInfo)
        => last.writes = <<>>

\* The uints below 1<<31, as numbers.
Small(u) == u[3] = 0 /\ u[4] = 0 /\ u[2] < Limb \div 2
NumOf(u) == u[2] * Limb + u[1]

\* What the code holds of V and Debug: V(b) returns a logger whose level is
\* its receiver's level plus b modulo 2^64, the receiver keeping its level;
\* a Debug call on a logger of a level n below 1<<31 is written if and only
\* if the verbosity is at least n, one on a logger of a level from 1<<31 to
\* 1<<63 - 1 is never written, one on a logger of a level from 1<<63 to
\* 1<<64 - 1<<31 - 1 is written at every verbosity, and one on a logger of
\* the level 1<<64 - 1 is written if and only if the verbosity is at least
\* -1.
C12_Additive ==
    /\ last.op = "V" =>
          /\ loggers[last.ret].debugL
                = AddUint(loggers[last.recv].debugL, last.args[1].u)
          /\ (Small(loggers[last.recv].debugL) /\ Small(last.args[1].u)
              /\ NumOf(loggers[last.recv].debugL) < 2^30
              /\ NumOf(last.args[1].u) < 2^30)
             => NumOf(loggers[last.ret].debugL)
                  = NumOf(loggers[last.recv].debugL) + NumOf(last.args[1].u)
    /\ last.op = "Debug" =>
          \A n \in {loggers[last.recv].debugL} :
              /\ Small(n) => (Len(last.writes) = 1
                              <=> loggers[last.recv].verbosity >= NumOf(n))
              /\ (n[4] < Limb \div 2 /\ ~Small(n)) => last.writes = <<>>
              /\ (n[4] >= Limb \div 2 /\ n[4] < Limb - 1)
                 => Len(last.writes) = 1
              /\ n = UintMax
                 => (Len(last.writes) = 1
                     <=> loggers[last.recv].verbosity >= 0 - 1)

\* C12 witness: a Debug call on the logger V(1<<63) returned for a root
\* logger of verbosity VerbosityNone has written its line.
C12_Witness ==
    /\ last.op = "Debug"
    /\ loggers[last.recv].verbosity = VerbosityNone
    /\ loggers[last.recv].debugL = UintTop
    /\ last.writes
         = <<"\"level\"=\"debug\" \"logger\"=\"root\" \"v\"=9223372036854775808 \"msg\"=\"m\"\n">>

\* The key of the pair text piece: the text between its first two quotes.
KeyOf(piece) ==
    The({ IF Len(qs) < 2 THEN "" ELSE SubSeq(piece, qs[1] + 1, qs[2] - 1)
          : qs \in {Ascending(Quotes(piece))} })

\* The keys of the top-level pairs of a line, in the order of the line.
LineKeys(f, line) ==
    LET keys(ps) == [j \in 1..Len(ps) |-> KeyOf(ps[j])]
        pieces(body) == IF body = "" THEN <<>>
                        ELSE Pieces(body, TopSeps(body, Separator(f)))
    IN  The({ keys(ps) : ps \in {The({ pieces(body)
                                       : body \in {Inner(f, line)} })} })

\* The log calls, and the caller policy that selects each of them alone.
LogOps == {"Debug", "Info", "Warning", "Error"}
PolicyOf(op) ==
    CASE op = "Debug" -> categoryDebug
      [] op = "Info" -> categoryInfo
      [] op = "Warning" -> categoryWarning
      [] op = "Error" -> categoryError

\* The keys of a line up to its first "msg" key (all of them without one).
UpToMsg(keys) ==
    IF \E j \in 1..Len(keys) : keys[j] = "msg"
    THEN SubSeq(keys, 1, CHOOSE j \in 1..Len(keys) :
                            /\ keys[j] = "msg"
                            /\ \A i \in 1..(j - 1) : keys[i] # "msg")
    ELSE keys

\* C13: the fields a written line holds up to its message include one
\* "caller" field when the policy of the logger is categoryAll or the
\* category of the call, and none otherwise; the caller field holds the file
\* and the line of the calling frame.
C13_CallerPolicy ==
    (last.op \in LogOps /\ last.writes # <<>>) =>
        \A f \in {loggers[last.recv].fmt} :
        \A keys \in {UpToMsg(LineKeys(f, last.writes[1]))} :
        \A n \in {Cardinality({j \in 1..Len(keys) : keys[j] = "caller"})} :
            /\ n = IF f.opts.logCaller \in {categoryAll, PolicyOf(last.op)}
                   THEN 1 ELSE 0
            /\ f.opts.logCaller = categoryNone => n = 0
            /\ n = 1 =>
                  \/ Contains(last.writes[1],
                              "\"caller\"={\"file\":\"x.go\",\"line\":7}")
                  \/ Contains(last.writes[1],
                              "\"caller\":{\"file\":\"x.go\",\"line\":7}")

\* C13 witness: a Warning call on a logger of the policy categoryWarning
\* has written a line with the caller field.
C13_Witness ==
    /\ last.op = "Warning"
    /\ loggers[last.recv].fmt.opts.logCaller = categoryWarning
    /\ last.args = <<>>
    /\ last.writes
         = <<"\"level\"=\"warning\" \"logger\"=\"root\" \"caller\"={\"file\":\"x.go\",\"line\":7} \"msg\"=\"m\"\n">>

Gate(op) ==
    CASE op = "Debug" -> 0
      [] op = "Info" -> VerbosityInfo
      [] op = "Warning" -> VerbosityWarning
      [] op = "Error" -> VerbosityError

\* C20: every log call returns, also when the sink's Write returns an
\* error; it leaves every logger as it was; a call whose Write failed has
\* handed its line to the sink once and printed one diagnostic that names
\* its method and holds the line; and every enabled call hands its line to
\* the sink, whether or not the Write of the call before it failed.
C20_WriteErrorContained ==
    [][ last'.op \in LogOps =>
          /\ last'.returned
          /\ loggers' = loggers
          /\ \A l \in 1..Len(loggers) :
                View(loggers', heap', l) = View(loggers, heap, l)
          /\ loggers[last'.recv].verbosity >= Gate(last'.op)
                => Len(last'.writes) = 1
          /\ last'.diag # <<>> =>
                /\ Len(last'.writes) = 1
                /\ last'.diag = <<"log." \o last'.op
                                  \o ": unable to write buffer: "
                                  \o last'.writes[1] \o "\n">>
      ]_vars

\* C20 witness: an Info call whose Write failed has returned, its line
\* handed to the sink and its diagnostic printed.
C20_Witness ==
    /\ last.op = "Info"
    /\ last.returned
    /\ last.writes = <<"\"level\"=\"info\" \"logger\"=\"root\" \"msg\"=\"m\" \"k\"=\"w\"\n">>
    /\ last.diag = <<"log.Info: unable to write buffer: \"level\"=\"info\" \"logger\"=\"root\" \"msg\"=\"m\" \"k\"=\"w\"\n\n">>

-----------------------------------------------------------------------------
(* The value renderer.                                                     *)

\* The string a String or Error method leaves: what it returned, or the
\* text of its recovered panic.
MethodText(m) ==
    IF m.panics THEN "<panic: " \o m.payload \o ">" ELSE m.ret.s

\* The text of a value whose MarshalLog is not to be looked at: its String,
\* else its Error, else the value reflection sees.
SelfText(f, v) ==
    IF v.kind # "obj" THEN pretty(f, v)
    ELSE IF v.string.has THEN prettyString(MethodText(v.string))
    ELSE IF v.error.has THEN prettyString(MethodText(v.error))
    ELSE pretty(f, v.under)

\* Claim C15: the dispatch follows a fixed priority.  A value with
\* MarshalLog is rendered as the value MarshalLog returned, and neither its
\* String nor its Error is invoked; the returned value is rendered by its
\* String, else its Error, else the structural rules (its own MarshalLog
\* is not invoked).  Without MarshalLog a value with String is rendered as
\* the string String returned and its Error is not invoked; without both,
\* a value with Error as the string Error returned; with none of the
\* three, by the primitive and structural rules.
C15_DispatchPriority ==
    (last.op = "pretty" /\ last.returned /\ last.args[1].kind = "obj") =>
        LET v == last.args[1]
            f == loggers[1].fmt
            own(method) == Invoked(method, v)
            called(c) == \E i \in 1..Len(last.calls) : last.calls[i] = c
        IN  IF v.marshal.has
            THEN /\ last.calls[1] = own("MarshalLog")
                 /\ ~called(own("String")) /\ ~called(own("Error"))
                 /\ \A i \in 1..Len(last.calls) :
                        i > 1 => last.calls[i].method # "MarshalLog"
                 /\ last.ret = IF v.marshal.panics
                               THEN prettyString(MethodText(v.marshal))
                               ELSE SelfText(f, v.marshal.ret)
            ELSE IF v.string.has
            THEN /\ last.calls = <<own("String")>>
                 /\ last.ret = prettyString(MethodText(v.string))
            ELSE IF v.error.has
            THEN /\ last.calls = <<own("Error")>>
                 /\ last.ret = prettyString(MethodText(v.error))
            ELSE /\ last.calls = <<>>
                 /\ last.ret = pretty(f, v.under)

\* pretty has rendered a value that has all three methods as the string
\* its MarshalLog returned, and a value whose MarshalLog returns a
\* Stringer as the string of that Stringer.
C15_Witness ==
    /\ last.op = "pretty" /\ last.returned
    /\ last.args[1].kind = "obj"
    /\ last.args[1].marshal.has /\ ~last.args[1].marshal.panics
    /\ \/ /\ last.args[1].string.has /\ last.args[1].error.has
          /\ last.ret = "\"M\""
          /\ last.calls = <<Invoked("MarshalLog", last.args[1])>>
       \/ /\ last.args[1].marshal.ret = Tstringer
          /\ last.ret = "\"S\""
          /\ last.calls = <<Invoked("MarshalLog", last.args[1]),
                            Invoked("String", Tstringer)>>

\* The payloads of the panic that rendering the value v meets: of its
\* MarshalLog, else of the String or Error of what MarshalLog returned or
\* of v itself.  The empty sequence: no method invoked panics.
PanicPayload(v) ==
    LET self(w) ==
            IF w.kind # "obj" THEN <<>>
            ELSE IF w.string.has
            THEN IF w.string.panics THEN <<w.string.payload>> ELSE <<>>
            ELSE IF w.error.has /\ w.error.panics THEN <<w.error.payload>>
            ELSE <<>>
    IN  IF v.kind # "obj" THEN <<>>
        ELSE IF v.marshal.has
        THEN IF v.marshal.panics THEN <<v.marshal.payload>>
             ELSE self(v.marshal.ret)
        ELSE self(v)

\* The string a panic of the payload P is rendered as.
PanicString(P) == VStr("<panic: " \o P \o ">")

\* Claim C16, for the values of a key/value list: when the MarshalLog,
\* String or Error method of a value panics with the payload P, pretty
\* returns the quoted string "<panic: P>", and a log call that carries the
\* value returns and hands the sink one line, the line it writes when it
\* carries the string "<panic: P>" in the value's place.
C16_PanicContained ==
    /\ (last.op = "pretty" /\ PanicPayload(last.args[1]) # <<>>) =>
           /\ last.returned
           /\ last.ret = "\"<panic: " \o PanicPayload(last.args[1])[1] \o ">\""
    /\ (last.op = "Info" /\ Len(last.args) = 6
          /\ PanicPayload(last.args[4]) # <<>>) =>
           /\ last.returned
           /\ Len(last.writes) = 1
           /\ WholeLine(loggers[last.recv].fmt, last.writes[1], last.builtins,
                        Persisted(last.recv),
                        Carrying(PanicString(PanicPayload(last.args[4])[1])))

\* An Info call that carries a value whose String panics with "boom" has
\* returned and written the line with the fields before and after it.
C16_Witness ==
    /\ last.op = "Info" /\ last.returned
    /\ Len(last.args) = 6
    /\ last.args[4].kind = "obj" /\ last.args[4].string.panics
    /\ last.writes
         = <<"\"level\"=\"info\" \"logger\"=\"root\" \"msg\"=\"m\" \"i\"=7 \"k\"=\"<panic: boom>\" \"j\"=8\n">>

\* Claim C16, for the error given to Error: every Error call on a logger
\* that logs errors returns to its caller.  Error calls err.Error() itself,
\* outside invokeError, so this fails for an error whose Error panics.
C16_ErrorCallReturns ==
    (last.op = "Error" /\ loggers[last.recv].verbosity >= VerbosityError) =>
        last.returned

\* What a value of the kind writes before and after its element when it is
\* reached at the depth level under the limit m; a map renders its key at
\* the depth of its element.
OpenText(kind, level, m) ==
    CASE kind = "slice" -> "["
      [] kind = "struct" -> "{\"F\":"
      [] kind = "pseudo" -> "{\"p\":"
      [] kind = "map" ->
           "{" \o (IF level + 1 > m THEN "\"<max-log-depth-exceeded>\""
                   ELSE "\"k\"") \o ":"

CloseText(kind) == IF kind = "slice" THEN "]" ELSE "}"

\* The text of the leaf under d values of the kind, from the depth level
\* on: the values down to depth m, the marker in place of what is deeper.
RECURSIVE NestText(_, _, _, _, _)
NestText(kind, level, d, leafText, m) ==
    IF level > m THEN "\"<max-log-depth-exceeded>\""
    ELSE IF level = d THEN leafText
    ELSE OpenText(kind, level, m)
         \o NestText(kind, level + 1, d, leafText, m)
         \o CloseText(kind)

LeafText(leaf) == IF leaf = VPtr(1) THEN "7" ELSE "1"

\* Claim C17: newFormatter turns a maxLogDepth of 0 into the default 16 and
\* keeps any other.  pretty renders a leaf under d structs, pseudo-structs,
\* slices or maps (a pointer as leaf adds no depth) as the d values around
\* the leaf when d is at most the limit, and else as the values down to the
\* depth of the limit with the marker "<max-log-depth-exceeded>" in place
\* of everything deeper: the marker occurs exactly when d exceeds the
\* limit, in the text of pretty and in the line of a log call.
C17_DepthLimit ==
    /\ last.op = "newFormatter" =>
           loggers[1].fmt.opts.maxLogDepth
               = IF last.args[1].n = 0 THEN 16 ELSE last.args[1].n
    /\ \A kind \in NestKinds, d \in NestDepths, leaf \in NestLeaves :
         \A m \in {loggers[1].fmt.opts.maxLogDepth} :
           /\ (last.op = "pretty" /\ last.args[1] = Nest(kind, d, leaf)) =>
                 /\ last.returned
                 /\ last.ret = NestText(kind, 0, d, LeafText(leaf), m)
                 /\ Contains(last.ret, "<max-log-depth-exceeded>") <=> d > m
           /\ (last.op = "Info" /\ Len(last.args) = 6
                /\ last.args[4] = Nest(kind, d, leaf)) =>
                 /\ last.returned /\ Len(last.writes) = 1
                 /\ Contains(last.writes[1], "<max-log-depth-exceeded>")
                      <=> d > m

\* Under the limit 2 pretty has rendered an int under three slices with
\* the marker in the int's place, or under the default limit, got from the
\* option 0, an int under seventeen slices.
C17_Witness ==
    /\ last.op = "pretty" /\ last.returned
    /\ \/ /\ loggers[1].fmt.opts.maxLogDepth = 2
          /\ last.args[1] = Nest("slice", 3, VInt(1))
          /\ last.ret = "[[[\"<max-log-depth-exceeded>\"]]]"
       \/ /\ loggers[1].fmt.opts.maxLogDepth = defaultMaxLogDepth
          /\ last.args[1] = Nest("slice", defaultMaxLogDepth + 1, VInt(1))
          /\ Contains(last.ret, "<max-log-depth-exceeded>")

\* The values of PrettyValues that reach themselves through pointers alone:
\* p of p = &p, a of a = &b and b = &a, and a slice that holds p.
PointerCycles == {VPtr(2), VPtr(6), VSlice(<<VPtr(2)>>)}

\* Claim C18, as far as the code keeps it: pretty and the log calls return
\* for every value except those that reach themselves through pointers
\* alone.  A struct that reaches itself through a pointer field and a
\* slice or a map that holds itself are rendered down to the depth limit,
\* with the marker below it.
C18_ContainersBounded ==
    /\ last.op = "pretty" =>
          /\ last.returned <=> last.args[1] \notin PointerCycles
          /\ last.args[1] \in {VPtr(3), Vars[3], VRef(4), VRef(5)} =>
                Contains(last.ret, "<max-log-depth-exceeded>")
    /\ (last.op = "Info" /\ Len(last.args) = 6) =>
          /\ last.returned <=> last.args[4] \notin PointerCycles
          /\ last.returned => Len(last.writes) = 1

\* Under the limit 1 pretty has rendered the pointer to a struct whose
\* field points to the struct itself.
C18_Witness ==
    /\ last.op = "pretty" /\ last.returned
    /\ last.args[1] = VPtr(3)
    /\ loggers[1].fmt.opts.maxLogDepth = 1
    /\ last.ret = "{\"Next\":{\"Next\":\"<max-log-depth-exceeded>\"}}"

\* Claim C18: every call of pretty, and every log call on a logger that
\* logs it, returns, whatever the value.  The pointer case of
\* prettyWithFlags passes the depth on unchanged, so this fails for p of
\* var p interface{}; p = &p.
C18_Terminates ==
    (last.op = "pretty" \/ last.op = "Info") => last.returned

\* Two calls that follow each other are calls of pretty on the same value,
\* or Info calls with the same fields (a map is the same map whatever the
\* order its range loop takes), and both return.
SameCallAgain ==
    /\ last.op = last'.op
    /\ \/ last.op = "pretty" /\ last'.args = last.args
       \/ /\ last.op = "Info" /\ Len(last.args) = 6 /\ Len(last'.args) = 6
          /\ last'.args[4] \in MapOrders(last.args[4])
    /\ last.returned /\ last'.returned

\* A value without a map of two or more keys.
OneOrder(v) == MapOrders(v) = {v}

\* Claim C19, as far as the code keeps it: two calls of pretty on the same
\* value, and two Info calls with the same fields on the same logger, give
\* the same text and the same line when the value holds no map of two or
\* more keys; the text of a map is the text of its entries in one of their
\* orders.
C19_DeterministicWithoutMaps ==
    /\ [][ (SameCallAgain /\ OneOrder(last.args[IF last.op = "pretty" THEN 1
                                                ELSE 4]))
           => (last'.ret = last.ret /\ last'.writes = last.writes) ]_vars
    /\ [](last.op = "pretty" /\ last.returned =>
            \E ranged \in MapOrders(last.args[1]) :
                last.ret = pretty(loggers[1].fmt, ranged))

\* pretty has rendered the map {"a": 1, "b": 2} with the key "b" first.
C19_Witness ==
    /\ last.op = "pretty" /\ last.returned
    /\ last.args[1] = VMap("string", << <<VStr("a"), VInt(1)>>,
                                        <<VStr("b"), VInt(2)>> >>)
    /\ last.ret = "{\"b\":2,\"a\":1}"

\* Claim C19: two calls of pretty on the same value give the same text,
\* and two Info calls with the same fields on the same logger give the
\* same line (these loggers write no timestamp), whatever the value.  The
\* map case ranges over the map unsorted, so this fails for a map of two
\* keys.
C19_Deterministic ==
    [][ SameCallAgain
        => (last'.ret = last.ret /\ last'.writes = last.writes) ]_vars

-----------------------------------------------------------------------------
(* The caller's list.                                                      *)

\* The entries of the caller's list after the call: the caller's slice has
\* kept its length, its backing array is as the call left it.
CallersList == SubSeq(last.argArr, 1, Len(last.args))

\* Claim C21, as far as the code keeps it: after sanitize the caller's list
\* has its length and its values; a key that is a string is kept, and a key
\* that is no string is kept only when the list had odd length and no
\* spare capacity, so that append moved it to a new array; else the key
\* has been replaced in the caller's list by its marker.
C21_ValuesKept ==
    last.op = "sanitize" =>
        /\ Len(last.argArr) >= Len(last.args)
        /\ \A i \in 1..Len(last.args) :
              CallersList[i] =
                  IF i % 2 = 1 /\ ~IsString(last.args[i])
                     /\ ~(Len(last.args) % 2 = 1
                          /\ Len(last.argArr) = Len(last.args))
                  THEN VStr(nonStringKey(loggers[1].fmt, last.args[i]))
                  ELSE last.args[i]

\* sanitize has been given the pair of the key 7 and the value "v" and has
\* left the marker in the caller's list.
C21_Witness ==
    /\ last.op = "sanitize"
    /\ last.args = <<VInt(7), VStr("v")>>
    /\ CallersList = <<VStr("<non-string-key: 7>"), VStr("v")>>

\* Claim C21: sanitize never modifies the list it is given; after the call
\* the caller's list has the entries it had.  sanitize assigns
\* kvList[i] = f.nonStringKey(kvList[i]) to the caller's backing array, so
\* this fails for a list with a key that is no string.
C21_ListUnmodified ==
    last.op = "sanitize" => CallersList = last.args

-----------------------------------------------------------------------------
(* The persisted text.                                                     *)

\* The texts of ts with sep between them.
RECURSIVE JoinTexts(_, _)
JoinTexts(ts, sep) ==
    IF Len(ts) = 0 THEN ""
    ELSE IF Len(ts) = 1 THEN ts[1]
    ELSE ts[1] \o sep \o JoinTexts(Tail(ts), sep)

\* The list es rendered as one group: its pairs with escaped keys, the
\* separator between them and none before the first.
GroupText(f, es) == JoinTexts(PairTexts(f, es, TRUE), Separator(f))

\* Claim C22: in every state the pre-rendered text of every logger is its
\* persisted list rendered as one group, and it is empty exactly when the
\* list is empty; the logger a WithValues call returns holds the text of
\* its own list, the logger a WithName or V call returns holds the text of
\* its parent, and no call changes the text of a logger that exists.
C22_PreRendered ==
    /\ [](\A l \in 1..Len(loggers) :
            /\ loggers[l].fmt.valuesStr
                 = GroupText(loggers[l].fmt, Persisted(l))
            /\ loggers[l].fmt.valuesStr = "" <=> Persisted(l) = <<>>)
    /\ [][ /\ \A l \in 1..Len(loggers) :
                /\ l <= Len(loggers')
                /\ loggers'[l].fmt.valuesStr = loggers[l].fmt.valuesStr
           /\ last'.op \in {"WithName", "V"} =>
                loggers'[last'.ret].fmt.valuesStr
                    = loggers[last'.recv].fmt.valuesStr
           /\ last'.op \in LogOps => Len(loggers') = Len(loggers) ]_vars

\* A log call on a logger that WithValues returned for a dangling key has
\* written a line; the logger holds the key's text with the sentinel.
C22_Witness ==
    /\ last.op \in LogOps /\ Len(last.writes) = 1
    /\ Persisted(last.recv) = <<VStr("d")>>
    /\ loggers[last.recv].fmt.valuesStr = "\"d\"=\"<no-value>\""

\* a, then the separator, then b; a or b alone when the other is empty.
Joined(f, a, b) ==
    IF a = "" THEN b ELSE IF b = "" THEN a ELSE a \o Separator(f) \o b

\* Claim C23, as far as the code keeps it: the list the logger of a
\* WithValues call stores holds the parent's stored list and then the
\* call's list, entry by entry (a key that is no string as it is or as its
\* marker), and its text is that list rendered as one group.  When the
\* parent's stored list has even length this is the parent's text, a
\* separator and the rendering of the call's own pairs.
C23_ComposesOnEven ==
    [][ last'.op = "WithValues" =>
          \A f \in {loggers'[last'.ret].fmt} :
          \A old \in {Persisted(last'.recv)} :
          \A new \in {Elems(heap', f.values)} :
            /\ Len(new) = Len(old) + Len(last'.args)
            /\ \A i \in 1..Len(new) :
                 \A given \in {IF i <= Len(old) THEN old[i]
                               ELSE last'.args[i - Len(old)]} :
                    \/ new[i] = given
                    \/ /\ i % 2 = 1 /\ ~IsString(given)
                       /\ new[i] = VStr(nonStringKey(f, given))
            /\ f.valuesStr = GroupText(f, old \o last'.args)
            /\ Len(old) % 2 = 0 =>
                 f.valuesStr = Joined(f, loggers[last'.recv].fmt.valuesStr,
                                      GroupText(f, last'.args)) ]_vars

\* WithValues("k", "v") on the logger of WithValues("d") has returned a
\* logger whose text pairs "d" with "k" and "v" with the sentinel.
C23_Witness ==
    /\ last.op = "WithValues"
    /\ last.args = <<VStr("k"), VStr("v")>>
    /\ Persisted(last.ret) = <<VStr("d"), VStr("k"), VStr("v")>>
    /\ loggers[last.ret].fmt.valuesStr \in
         { "\"d\"=\"k\" \"v\"=\"<no-value>\"",
           "\"d\":\"k\",\"v\":\"<no-value>\"" }

\* Claim C23: the text of the logger a WithValues call returns is the text
\* of the parent, a separator, and the rendering of the call's own pairs,
\* whatever the parent's list.  AddValues drops the list flatten returns,
\* so the sentinel of a dangling key is never stored, the stored list has
\* odd length, and this fails for a WithValues call on the logger of
\* WithValues("d").
C23_Composes ==
    [][ last'.op = "WithValues" =>
          loggers'[last'.ret].fmt.valuesStr
              = Joined(loggers'[last'.ret].fmt,
                       loggers[last'.recv].fmt.valuesStr,
                       GroupText(loggers'[last'.ret].fmt, last'.args)) ]_vars

-----------------------------------------------------------------------------
(* The struct case.                                                        *)

\* The fields of the struct the last call of pretty was given.
GivenFields == last.args[1].fields

\* The number of commas of s.
NumCommas(s) == Cardinality({i \in 1..Len(s) : CharAt(s, i) = ","})

\* The fields the struct loop does not skip, by their indices (1-based).
Kept(fs) == {i \in 1..Len(fs) : ~Omitted(fs[i])}

\* An embedded struct that is rendered inline and has no field to render.
Void(fld) == Inlined(fld) /\ Kept(fld.val.fields) = {}

\* How many fields of fs are written, those of the inlined structs counted
\* in their place.
Emitted(fs) ==
    Cardinality({i \in Kept(fs) : ~Inlined(fs[i])})
    + Cardinality({ <<i, j>> \in (1..Len(fs)) \X (1..MaxFields) :
                      /\ i \in Kept(fs) /\ Inlined(fs[i])
                      /\ j \in Kept(fs[i].val.fields) })

\* A comma stands exactly between two emitted fields of the text s of a
\* struct of the fields fs.
CommasBetween(s, fs) ==
    /\ ~Contains(s, "{,") /\ ~Contains(s, ",}") /\ ~Contains(s, ",,")
    /\ NumCommas(s) = IF Emitted(fs) = 0 THEN 0 ELSE Emitted(fs) - 1

\* Claim C24, as far as the code keeps it: the struct loop writes its comma
\* before every field it does not skip, but the first of the struct type.
\* So a comma stands exactly between two emitted fields if and only if the
\* first field of the type is not skipped and no embedded struct without a
\* field to render is inlined next to another field.
C24_CommasByIndex ==
    (last.op = "pretty" /\ last.args[1].kind = "struct") =>
        /\ last.returned
        /\ CommasBetween(last.ret, GivenFields)
             <=> /\ Kept(GivenFields) # {} => 1 \in Kept(GivenFields)
                 /\ \A i \in Kept(GivenFields) :
                       Void(GivenFields[i]) => Kept(GivenFields) = {1}

\* pretty has rendered a struct whose first field is tagged "-" and whose
\* second field is plain: a comma follows the opening brace.
C24_Witness ==
    /\ last.op = "pretty" /\ last.returned
    /\ last.args[1] = VStruct(<<FldTag("C", "-", VInt(3)), Fld("A", VInt(1))>>)
    /\ last.ret = "{,\"A\":1}"

\* Claim C24: in the text of every struct a comma stands exactly between
\* two consecutive emitted fields, whichever fields are skipped.  The
\* struct loop tests "i > 0" on the index of the field, so this fails for a
\* struct whose first field is skipped.
C24_CommasBetweenFields ==
    (last.op = "pretty" /\ last.args[1].kind = "struct") =>
        CommasBetween(last.ret, GivenFields)

\* The fields fs with those of every inlined struct in the struct's place,
\* each such field with its value, or with the marker for its value when
\* exceeded.
RECURSIVE Splice(_, _)
Splice(fs, exceeded) ==
    IF fs = <<>> THEN <<>>
    ELSE (IF Inlined(Head(fs))
          THEN [j \in 1..Len(Head(fs).val.fields) |->
                   IF exceeded
                   THEN [Head(fs).val.fields[j]
                            EXCEPT !.val = VStr("<max-log-depth-exceeded>")]
                   ELSE Head(fs).val.fields[j]]
          ELSE <<Head(fs)>>)
         \o Splice(Tail(fs), exceeded)

\* No inlined struct of fs is without a field to render.
NoneVoid(fs) == \A i \in 1..Len(fs) : ~Void(fs[i])

\* Claim C25, as far as the code keeps it: an embedded struct without a
\* name of its own is rendered without braces and without a key, its
\* fields in its place; it is rendered by a call with depth+1, so its
\* fields are one level deeper than the other fields of the parent: under
\* the limit 1 they are the marker where a field of the parent itself is
\* rendered, under the default limit the text is the text of the struct
\* that has the fields itself.
C25_InlinedOneDeeper ==
    (last.op = "pretty" /\ last.args[1].kind = "struct"
     /\ NoneVoid(GivenFields)) =>
        last.ret = IF loggers[1].fmt.opts.maxLogDepth >= 2
                   THEN pretty(loggers[1].fmt,
                               VStruct(Splice(GivenFields, FALSE)))
                   ELSE pretty(loggers[1].fmt,
                               VStruct(Splice(GivenFields, TRUE)))

\* Under the limit 1 pretty has rendered a struct of the field A and an
\* embedded struct of the field X: A is rendered, X is the marker.
C25_Witness ==
    /\ last.op = "pretty" /\ last.returned
    /\ loggers[1].fmt.opts.maxLogDepth = 1
    /\ last.args[1] = VStruct(<<Fld("A", VInt(1)),
                                FldEmbedded("Tinnerstruct", Tinnerstruct)>>)
    /\ last.ret = "{\"A\":1,\"X\":\"<max-log-depth-exceeded>\"}"

\* Claim C25: the fields of an inlined embedded struct are rendered at the
\* depth of the parent's own fields: the text of the struct is the text of
\* the struct that has the embedded struct's fields itself, under every
\* limit.  The inlining call passes depth+1, so this fails under the
\* limit 1.
C25_InlinedSameDepth ==
    (last.op = "pretty" /\ last.args[1].kind = "struct"
     /\ NoneVoid(GivenFields)) =>
        last.ret = pretty(loggers[1].fmt, VStruct(Splice(GivenFields, FALSE)))

\* The positions of the commas of the tag, and the position after its end.
TagCuts(tag) == {i \in 1..Len(tag) : CharAt(tag, i) = ","} \cup {Len(tag) + 1}

\* The tag has the option opt: opt stands between two commas, or between a
\* comma and the end, after the name.
HasOption(tag, opt) ==
    \E a \in TagCuts(tag) \ {Len(tag) + 1}, b \in TagCuts(tag) :
        /\ a < b
        /\ \A c \in TagCuts(tag) : ~(a < c /\ c < b)
        /\ SubSeq(tag, a + 1, b - 1) = opt

\* The name the tag gives: what stands before its first comma.
NameOfTag(tag) ==
    LET first == CHOOSE a \in TagCuts(tag) : \A b \in TagCuts(tag) : a <= b
    IN  SubSeq(tag, 1, first - 1)

\* The name a field is rendered under.
RenderedName(fld) ==
    IF fld.hasTag /\ NameOfTag(fld.tag) # "" THEN NameOfTag(fld.tag)
    ELSE fld.name

\* false, 0, the empty string, a slice or map of length 0, a nil pointer or
\* interface; never a struct.
Empty(val) == val \in EmptyInputs

\* A field that is never rendered, or that is omitted as empty.
Skipped(fld) ==
    \/ fld.pkgPath # ""
    \/ fld.hasTag /\ fld.tag = "-"
    \/ fld.hasTag /\ HasOption(fld.tag, "omitempty") /\ Empty(fld.val)

\* The text of the fields of fs from field i (1-based) on: nothing for a
\* skipped field, the fields of an inlined struct, and else the name and
\* the value; the comma before every field but the first of the type.
RECURSIVE FieldTexts(_, _, _)
FieldTexts(f, fs, i) ==
    IF i > Len(fs) THEN ""
    ELSE (IF Skipped(fs[i]) THEN ""
          ELSE (IF i > 1 THEN "," ELSE "")
               \o (IF Inlined(fs[i])
                   THEN prettyWithFlags(f, fs[i].val, TRUE, 1)
                   ELSE "\"" \o RenderedName(fs[i]) \o "\":"
                        \o prettyWithFlags(f, fs[i].val, FALSE, 1)))
         \o FieldTexts(f, fs, i + 1)

\* Claim C26: of a struct given to pretty, every field is either skipped
\* and leaves nothing in the text, or rendered under the name of its tag,
\* or under its own name when the tag gives none (the tag "-," gives the
\* name "-").  It is skipped if and only if it is unexported, tagged
\* exactly "-", or tagged with the option omitempty and empty (false, 0,
\* the empty string, a slice or map of length 0, a nil pointer or
\* interface); a struct is never empty.
C26_FieldRules ==
    (last.op = "pretty" /\ last.args[1].kind = "struct") =>
        /\ last.ret = "{" \o FieldTexts(loggers[1].fmt, GivenFields, 1) \o "}"
        /\ \A i \in 1..Len(GivenFields) :
             \A fld \in {GivenFields[i]} :
               (~Inlined(fld) /\ ~Skipped(fld)) =>
                  Contains(last.ret, "\"" \o RenderedName(fld) \o "\":")

\* pretty has rendered a struct whose second field is an empty struct
\* tagged ",omitempty": the field is there under its own name.
C26_Witness ==
    /\ last.op = "pretty" /\ last.returned
    /\ last.args[1] = VStruct(<<Fld("A", VInt(1)),
                                FldTag("Z", ",omitempty", VStruct(<<>>))>>)
    /\ last.ret = "{\"A\":1,\"Z\":{}}"

-----------------------------------------------------------------------------
\* The finished NewLogger calls: each with its name and the logger returned.
LoggersReturned == UNION { { threads[t].rets[i] : i \in 1..Len(threads[t].rets) } :
                     t \in 1..MaxThreads }

\* The names a logger has been created for: the registered ones and the
\* ones whose creator is about to register.  Every creation is for one of
\* them, so as many loggers as names means one logger for each.
NamesCreated ==
    DOMAIN registry.loggers
      \cup { threads[t].name : t \in { u \in 1..MaxThreads :
                                          threads[u].pc = "store" } }

RegistryConsistent ==
    /\ \A c \in LoggersReturned :
          /\ c.logger \in 1..Len(loggers)
          /\ c.name \in DOMAIN registry.loggers
          /\ registry.loggers[c.name] = c.logger
    /\ \A c, d \in LoggersReturned : (c.name = d.name) <=> (c.logger = d.logger)
    /\ Len(loggers) <= Cardinality(NamesCreated)

EntriesKept ==
    \A n \in DOMAIN registry.loggers :
        /\ n \in DOMAIN registry'.loggers
        /\ registry'.loggers[n] = registry.loggers[n]

\* C27: in every interleaving of concurrent NewLogger calls, the calls with
\* one name return one and the same logger, calls with different names
\* return different loggers, no more than one logger is created for a
\* name, and no step replaces or removes an entry of the registry.
C27_LookupOrCreate == [][RegistryConsistent' /\ EntriesKept]_vars

\* Both goroutines have asked for the same name and have got the same
\* logger, and a second name has its own logger.
C27_Witness ==
    /\ Len(loggers) = 2
    /\ \E c \in {threads[1].rets[i] : i \in 1..Len(threads[1].rets)},
          d \in {threads[2].rets[i] : i \in 1..Len(threads[2].rets)} :
          c.name = d.name /\ c.logger = d.logger
    /\ \E c, d \in LoggersReturned : c.name # d.name

-----------------------------------------------------------------------------
LockWriters == { w \in 1..Len(writers) : writers[w].kind = "lockWriter" }

\* The goroutines within the underlying Write that came through ls.
Within(ls) ==
    { t \in 1..MaxThreads : <<t, ls>> \in writers[writers[ls].w].inside }

\* The mutex of ls is held only by a goroutine between the Lock and the
\* Unlock of a Write on ls.
HeldInWrite(ls) ==
    /\ writers[ls].mu \in 0..MaxThreads
    /\ \A t \in 1..MaxThreads :
          writers[ls].mu = t <=>
             /\ threads[t].ls = ls
             /\ threads[t].pc \in {"Write", "inWrite", "Unlock"}

LockedWriters ==
    /\ \A ls \in LockWriters :
          /\ Cardinality(Within(ls)) <= 1
          /\ Within(ls) \subseteq {writers[ls].mu}
          /\ HeldInWrite(ls)
          /\ writers[writers[ls].w].kind # "lockWriter"
    /\ last.op = "Lock" /\ last.recv \in LockWriters => last.ret = last.recv

\* C28: through one lockWriter no two calls of the underlying Write
\* overlap; a Write that has returned, with an error or without, has
\* released the mutex, so that a goroutine waiting in Lock gets the mutex in
\* the end; Lock of a lockWriter returns that lockWriter and wraps nothing.
C28_LockedWrites ==
    /\ []LockedWriters
    /\ \A t \in 1..MaxThreads :
          (threads[t].pc = "Lock") ~> (threads[t].pc = "Write")

\* One goroutine has returned from a Write with an error, the other is by
\* now within the underlying Write of the same lockWriter, and Lock has
\* been called on a lockWriter.
C28_Witness ==
    /\ \E t, u \in 1..MaxThreads :
          /\ threads[t].pc = "idle"
          /\ threads[t].err
          /\ threads[u].pc = "inWrite"
          /\ threads[u].ls = threads[t].ls
    /\ last.op = "Lock"
    /\ last.recv \in LockWriters

-----------------------------------------------------------------------------
\* Whether a call of op on a logger of the given verbosity and V level
\* writes.
Emits(op, verbosity, debugL) ==
    CASE op = "Debug" -> GeInt(IntOfLevel(verbosity), IntOfUint(debugL))
      [] op = "Info" -> verbosity >= VerbosityInfo
      [] op = "Warning" -> verbosity >= VerbosityWarning
      [] op = "Error" -> verbosity >= VerbosityError

\* What the step has done to the verbosities: a derivation gives the new
\* logger the verbosity its parent has at that moment and changes no other
\* logger; setVerbosity changes the verbosity of its logger and nothing
\* else of any logger; and a log call or Enabled goes by the verbosity of
\* the logger it is called on.
OwnVerbosity ==
    /\ last'.op \in {"WithName", "WithValues", "V"} =>
          /\ loggers'[last'.ret].verbosity = loggers[last'.recv].verbosity
          /\ \A m \in 1..Len(loggers) :
                View(loggers', heap', m) = View(loggers, heap, m)
    /\ last'.op = "setVerbosity" =>
          /\ Len(loggers') = Len(loggers)
          /\ loggers'[last'.recv].verbosity = last'.args[1].n
          /\ \A m \in 1..Len(loggers) :
                View(loggers', heap', m)
                  = [View(loggers, heap, m) EXCEPT
                        !.verbosity = IF m = last'.recv
                                      THEN last'.args[1].n ELSE @]
    /\ last'.op \in {"Debug", "Info", "Warning", "Error"} =>
          /\ loggers' = loggers
          /\ last'.writes # <<>>
               <=> Emits(last'.op, loggers[last'.recv].verbosity,
                         loggers[last'.recv].debugL)
    /\ last'.op = "Enabled" =>
          /\ loggers' = loggers
          /\ last'.ret = (loggers[last'.recv].verbosity > VerbosityNone)

\* C29: a logger derived by WithName, WithValues or V has the verbosity of
\* its parent at the derivation and its own from then on: setVerbosity on a
\* logger changes what no other logger emits, and Enabled is true exactly
\* when the logger's own verbosity is above VerbosityNone.
C29_OwnVerbosity == [][OwnVerbosity]_vars

\* The root has been silenced after a logger was derived from it, the
\* derived logger still has the verbosity it took and its Info call has
\* written, and a third logger is silent as well.
C29_Witness ==
    /\ Len(loggers) = 3
    /\ loggers[1].verbosity = VerbosityNone
    /\ loggers[2].verbosity = VerbosityInfo
    /\ loggers[3].verbosity = VerbosityNone
    /\ last.op = "Info"
    /\ last.recv = 2
    /\ last.writes # <<>>

-----------------------------------------------------------------------------
\* The text a quoted token's inside stands for: a backslash and the byte
\* after it read as the one byte they escape.
RECURSIVE Unescaped(_)
Unescaped(s) ==
    IF s = "" THEN ""
    ELSE IF Head(s) = "\\" /\ Len(s) > 1
         THEN (CASE CharAt(s, 2) = "n" -> "\n"
                 [] CharAt(s, 2) = "t" -> "\t"
                 [] OTHER -> CharAt(s, 2))
              \o Unescaped(SubSeq(s, 3, Len(s)))
         ELSE Head(s) \o Unescaped(Tail(s))

\* The piece is one quoted token, the format's sign, one quoted token and
\* nothing else, and the tokens stand for the texts k and v.
TokensOf(f, piece, k, v) ==
    \A qs \in {Ascending(Quotes(piece))} :
        /\ Len(qs) = 4
        /\ qs[1] = 1
        /\ qs[3] = qs[2] + 2
        /\ qs[4] = Len(piece)
        /\ CharAt(piece, qs[2] + 1)
             = (IF f.opts.outputFormat = outputJSON THEN ":" ELSE "=")
        /\ Unescaped(SubSeq(piece, 2, qs[2] - 1)) = k
        /\ Unescaped(SubSeq(piece, qs[3] + 1, qs[4] - 1)) = v

\* The pairs a log call supplies, as texts: its builtin fields, its
\* logger's persisted fields, its call-site fields, each group with the
\* sentinel for a dangling key.
SuppliedTexts ==
    LET texts(es) ==
            [j \in 1..((Len(es) + 1) \div 2) |->
                <<es[2 * j - 1].s,
                  IF 2 * j <= Len(es) THEN es[2 * j].s ELSE noValue>>]
    IN  texts(last.builtins) \o texts(Persisted(last.recv))
        \o texts(last.args)

\* C30: whatever quotes, backslashes, newlines and tabs the message, the
\* logger's name, the persisted and call-site keys and the string values
\* hold, the line has one raw newline, its last byte, as many top-level
\* pairs as were supplied, and every pair is two quoted tokens that stand
\* for the supplied key and the supplied value.
C30_LineStructureKept ==
    last.op = "Info" /\ last.writes # <<>> =>
        \A f \in {loggers[last.recv].fmt}, line \in {last.writes[1]} :
            /\ \A i \in 1..Len(line) : CharAt(line, i) = "\n" <=> i = Len(line)
            /\ \A body \in {Inner(f, line)} :
               \A ps \in {Pieces(body, TopSeps(body, Separator(f)))} :
                  /\ Len(ps) = Len(SuppliedTexts)
                  /\ \A j \in 1..Len(ps) :
                        TokensOf(f, ps[j], SuppliedTexts[j][1],
                                 SuppliedTexts[j][2])

\* An Info call has written a line for a logger whose name and persisted
\* pair hold a forged pair, with a message of newlines and a dangling
\* call-site key of a tab, a backslash and a quote.
C30_Witness ==
    /\ last.op = "Info"
    /\ last.writes # <<>>
    /\ loggers[last.recv].fmt.prefix = "root/v\" \"k\"=\"w"
    /\ Persisted(last.recv) = <<VStr("v\" \"k\"=\"w"), VStr("c\\")>>
    /\ last.args = <<VStr("\t\\\"")>>
    /\ last.builtins[Len(last.builtins)] = VStr("x\ny\n")
====
